---- MODULE Spec2Model ----
(***************************************************************************)
(* Model of the dev-shell profile compiler (ops/dev-shell/src/utils.ts and *)
(* ops/dev-shell/src/generator.ts).  Strings are TLA+ strings and are      *)
(* scanned character by character; JavaScript objects are functions from   *)
(* their own keys; ordered YAML mappings are sequences of <<key, value>>.   *)
(***************************************************************************)
EXTENDS Integers, Sequences, FiniteSets, TLC

VARIABLES
  profileFile,    \* config/profiles/profile-<name>.yaml, parsed ({} for no document)
  profileOnDisk,  \* that file: "absent", "empty" (no document in it) or "yaml"
  procEnv,    \* process.env
  fsDirs,       \* the directories that exist under the workspace root
  repoEnvs,     \* the .env.<label> files in those directories: path -> contents
  svcDir,     \* .generated/dev-shell/<name>/services: file name -> contents
  stackFile,  \* .generated/dev-shell/<name>/stack.env: <<>> or <<contents>>
  lastRuntime,    \* the RuntimeConfig of the latest run: <<>> or <<runtime>>
  runDirs,        \* the directories that existed when the latest run looked
  rootCompose,    \* <root>/docker-compose.yaml, parsed: <<>> or <<manifest>>
  legacyCompose,  \* <root>/ops/generated/<name>/docker-compose.yaml: <<>> or <<manifest>>
  composeFile,    \* .generated/dev-shell/<name>/docker-compose.yaml: <<>> or <<manifest>>
  runKind,        \* the latest run: "none", "env" (env only), "full" or "failed"
  runTemplates,   \* <<rootCompose, legacyCompose>> as the latest full run found them
  nginxTemplate,  \* <root>/config/nginx/default.conf.template: its text, "" when missing
  snippetFiles,   \* the files under <root>/temp: path -> text
  nginxFile,      \* .generated/dev-shell/<name>/nginx.conf: <<>> or <<text>>
  tsegs,      \* interpolate harness: the template, as literal / placeholder segments
  tctx,       \* interpolate harness: the context object
  tout,       \* interpolate harness: the result of interpolate
  tdone,      \* interpolate harness: interpolate has been applied
  hsource,    \* compose harness: the manifest object passed to pruneCompose
  hgiven,     \* compose harness: the contents of that object before the call
  hremove,    \* compose harness: servicesToRemove
  hruntime,   \* compose harness: the RuntimeConfig
  hpruned,    \* compose harness: <<>> or <<what pruneCompose returned>>
  hported,    \* compose harness: <<>> or <<that after ensureComposeDebugPorts>>
  hstage,     \* compose harness: "idle", "given", "pruned" or "ported"
  nraw,       \* snippet harness: the text of the snippet
  nroute,     \* snippet harness: the route the snippet is normalized for
  nruntime,   \* snippet harness: the RuntimeConfig
  nblocks,    \* snippet harness: what extractLocationBlocks returned
  nnormalized,  \* snippet harness: what normalizeSnippetContent returned
  nstage      \* snippet harness: "idle", "given", "extracted" or "normalized"

\* The state of the profile compiler and of the files it reads and writes.
gvars == <<profileFile, profileOnDisk, procEnv, fsDirs, repoEnvs, svcDir, stackFile,
           lastRuntime, runDirs,
           rootCompose, legacyCompose, composeFile, runKind, runTemplates,
           nginxTemplate, snippetFiles, nginxFile>>

\* The proxy template, the snippets and the generated proxy configuration.
pvars == <<nginxTemplate, snippetFiles, nginxFile>>

\* The manifest files and the record of the latest run.
fvars == <<rootCompose, legacyCompose, composeFile, runKind, runTemplates>>

\* The state of the interpolate harness.
ivars == <<tsegs, tctx, tout, tdone>>

\* The state of the compose harness.
hvars == <<hsource, hgiven, hremove, hruntime, hpruned, hported, hstage>>

\* The state of the snippet harness.
nvars == <<nraw, nroute, nruntime, nblocks, nnormalized, nstage>>

vars == <<profileFile, profileOnDisk, procEnv, fsDirs, repoEnvs, svcDir, stackFile,
          lastRuntime, runDirs,
          rootCompose, legacyCompose, composeFile, runKind, runTemplates,
          nginxTemplate, snippetFiles, nginxFile,
          tsegs, tctx, tout, tdone,
          hsource, hgiven, hremove, hruntime, hpruned, hported, hstage,
          nraw, nroute, nruntime, nblocks, nnormalized, nstage>>

(***************************************************************************)
(* Characters and strings                                                  *)
(***************************************************************************)

\* The i-th character of s, "" outside the string.
Ch(s, i) == IF i >= 1 /\ i <= Len(s) THEN SubSeq(s, i, i) ELSE ""

UpperLetters ==
  {"A","B","C","D","E","F","G","H","I","J","K","L","M",
   "N","O","P","Q","R","S","T","U","V","W","X","Y","Z"}

LowerLetters ==
  {"a","b","c","d","e","f","g","h","i","j","k","l","m",
   "n","o","p","q","r","s","t","u","v","w","x","y","z"}

Digits == {"0","1","2","3","4","5","6","7","8","9"}

\* [A-Za-z0-9]
AlnumChars == UpperLetters \cup LowerLetters \cup Digits

\* The characters a..b of s that exist: s.slice(a - 1, b).
Slice(s, a, b) ==
  IF a > Len(s) \/ b < a THEN "" ELSE SubSeq(s, a, IF b > Len(s) THEN Len(s) ELSE b)

\* s.includes(sub) for a sub that is not empty.
HasSubstring(s, sub) ==
  \E i \in 1..Len(s) : i + Len(sub) - 1 <= Len(s) /\ SubSeq(s, i, i + Len(sub) - 1) = sub

\* The positions of the line ends of a text.
LineEnds(text) == {i \in 1..Len(text) : SubSeq(text, i, i) = "\n"}

\* The character class [A-Za-z0-9_] of PLACEHOLDER_PATTERN.
NameChars == AlnumChars \cup {"_"}

\* {...a, ...b}: the keys of both, b winning.
Merge(a, b) ==
  [k \in (DOMAIN a) \cup (DOMAIN b) |-> IF k \in DOMAIN b THEN b[k] ELSE a[k]]

\* obj[key] = value on a plain object.
Put(obj, key, value) ==
  [k \in (DOMAIN obj) \cup {key} |-> IF k = key THEN value ELSE obj[k]]

\* The empty object {}.
EmptyObj == [k \in {} |-> ""]

(***************************************************************************)
(* utils.ts: interpolate                                                   *)
(***************************************************************************)

\* What a plain object inherits from Object.prototype, as String.replace
\* stringifies it when the callback returns it.
ObjectPrototype ==
  [k \in {"constructor", "toString", "valueOf", "hasOwnProperty", "__proto__"} |->
     CASE k = "constructor"    -> "function Object() { [native code] }"
       [] k = "toString"       -> "function toString() { [native code] }"
       [] k = "valueOf"        -> "function valueOf() { [native code] }"
       [] k = "hasOwnProperty" -> "function hasOwnProperty() { [native code] }"
       [] k = "__proto__"      -> "[object Object]"]

\* context[name]: an own key, else an inherited one, else undefined.
\* The result is <<>> for undefined and <<v>> for the value v.
Lookup(context, name) ==
  IF name \in DOMAIN context THEN <<context[name]>>
  ELSE IF name \in DOMAIN ObjectPrototype THEN <<ObjectPrototype[name]>>
  ELSE <<>>

\* The index of the last character of the longest run of name characters
\* that starts at i (i - 1 when there is none): [A-Za-z0-9_]+ is greedy.
RECURSIVE NameEnd(_, _)
NameEnd(t, i) ==
  IF Ch(t, i) \in NameChars THEN NameEnd(t, i + 1) ELSE i - 1

\* The index of the first "}" at or after i, 0 when there is none: [^}]*.
RECURSIVE CloseAt(_, _)
CloseAt(t, i) ==
  IF i > Len(t) THEN 0
  ELSE IF Ch(t, i) = "}" THEN i
  ELSE CloseAt(t, i + 1)

\* PLACEHOLDER_PATTERN matched at position i of t:
\*   \$\{([A-Za-z0-9_]+)(:-([^}]*))?\}
\* last is the index of the closing brace; hasDefault tells whether group 3
\* took part in the match (it is undefined otherwise).
MatchAt(t, i) ==
  LET e == NameEnd(t, i + 2)
      c == CloseAt(t, e + 3)
      none == [ok |-> FALSE, name |-> "", hasDefault |-> FALSE,
               defaultValue |-> "", last |-> i]
  IN IF ~(Ch(t, i) = "$" /\ Ch(t, i + 1) = "{" /\ e >= i + 2) THEN none
     ELSE IF Ch(t, e + 1) = "}"
       THEN [ok |-> TRUE, name |-> SubSeq(t, i + 2, e), hasDefault |-> FALSE,
             defaultValue |-> "", last |-> e + 1]
     ELSE IF Ch(t, e + 1) = ":" /\ Ch(t, e + 2) = "-" /\ c > 0
       THEN [ok |-> TRUE, name |-> SubSeq(t, i + 2, e), hasDefault |-> TRUE,
             defaultValue |-> SubSeq(t, e + 3, c - 1), last |-> c]
     ELSE none

\* The replace callback: the value when it is defined and not '',
\* else defaultValue ?? ''.
Replacement(context, name, hasDefault, defaultValue) ==
  LET value == Lookup(context, name)
  IN IF value # <<>> /\ value[1] # "" THEN value[1]
     ELSE IF hasDefault THEN defaultValue
     ELSE ""

\* template.replace(PLACEHOLDER_PATTERN, callback) from position i on: the
\* global regex walks the template once, left to right; what the callback
\* returns is appended to the result and is not scanned again.
RECURSIVE ReplaceFrom(_, _, _)

\* The walk at position i, m being what the pattern matches there: a match
\* is replaced and the walk goes on behind it, any other character is kept.
ReplaceAt(template, context, i, m) ==
  IF m.ok
    THEN Replacement(context, m.name, m.hasDefault, m.defaultValue)
           \o ReplaceFrom(template, context, m.last + 1)
    ELSE Ch(template, i) \o ReplaceFrom(template, context, i + 1)

\* The least member of a set of positions, 0 for the empty set.
FirstOf(positions) ==
  IF positions = {} THEN 0 ELSE CHOOSE i \in positions : \A j \in positions : i <= j

\* The walk from position i on, d being the position of the next "$" (0
\* when there is none): the pattern matches nowhere before it, so the text
\* up to it is kept.
ReplaceFromDollar(template, context, i, d) ==
  IF d = 0 THEN SubSeq(template, i, Len(template))
  ELSE SubSeq(template, i, d - 1) \o ReplaceAt(template, context, d, MatchAt(template, d))

ReplaceFrom(template, context, i) ==
  IF i > Len(template) THEN ""
  ELSE ReplaceFromDollar(template, context, i,
                         FirstOf({j \in i..Len(template) : Ch(template, j) = "$"}))

\* A faulty interpolate that expands its own output once more.
interpolateRescan(template, context) ==
  ReplaceFrom(ReplaceFrom(template, context, 1), context, 1)

interpolate(template, context) == ReplaceFrom(template, context, 1)

(***************************************************************************)
(* utils.ts: tokens, classification, database keys, serialization          *)
(***************************************************************************)

\* Printable ASCII in code order: codes 32..95 and 97..126.
AsciiLow == " !\"#$%&'()*+,-./0123456789:;<=>?@ABCDEFGHIJKLMNOPQRSTUVWXYZ[\\]^_"

AsciiHigh == "abcdefghijklmnopqrstuvwxyz{|}~"

\* The characters of a string, as a set.
CharsOf(s) == {SubSeq(s, i, i) : i \in 1..Len(s)}

\* The UTF-16 code unit of every character the model's strings hold.
CharCodes ==
  [c \in CharsOf(AsciiLow) \cup CharsOf(AsciiHigh) \cup {"\t", "\n", "\r"} |->
     IF c = "\t" THEN 9
     ELSE IF c = "\n" THEN 10
     ELSE IF c = "\r" THEN 13
     ELSE IF c \in CharsOf(AsciiLow)
       THEN 31 + (CHOOSE i \in 1..Len(AsciiLow) : SubSeq(AsciiLow, i, i) = c)
     ELSE 96 + (CHOOSE i \in 1..Len(AsciiHigh) : SubSeq(AsciiHigh, i, i) = c)]

CharCode(c) == CharCodes[c]

\* toUpperCase and toLowerCase of one letter: 32 code units apart.
UpperOf ==
  [c \in LowerLetters |-> LET j == CharCodes[c] - 32 IN SubSeq(AsciiLow, j - 31, j - 31)]

LowerOf ==
  [c \in UpperLetters |-> LET j == CharCodes[c] + 32 IN SubSeq(AsciiHigh, j - 96, j - 96)]

UpperChar(c) == IF c \in LowerLetters THEN UpperOf[c] ELSE c

LowerChar(c) == IF c \in UpperLetters THEN LowerOf[c] ELSE c

RECURSIVE UpperFrom(_, _)
UpperFrom(s, i) ==
  IF i > Len(s) THEN "" ELSE UpperChar(SubSeq(s, i, i)) \o UpperFrom(s, i + 1)

toUpperCase(s) == UpperFrom(s, 1)

RECURSIVE LowerFrom(_, _)
LowerFrom(s, i) ==
  IF i > Len(s) THEN "" ELSE LowerChar(SubSeq(s, i, i)) \o LowerFrom(s, i + 1)

toLowerCase(s) == LowerFrom(s, 1)

\* s.replace(/[^A-Za-z0-9]+/g, sep) from position i on: each run of
\* characters outside [A-Za-z0-9] becomes one sep.
RECURSIVE ReplaceNonAlnumRuns(_, _, _)
ReplaceNonAlnumRuns(s, sep, i) ==
  IF i > Len(s) THEN ""
  ELSE IF Ch(s, i) \in AlnumChars THEN Ch(s, i) \o ReplaceNonAlnumRuns(s, sep, i + 1)
  ELSE IF i > 1 /\ Ch(s, i - 1) \notin AlnumChars THEN ReplaceNonAlnumRuns(s, sep, i + 1)
  ELSE sep \o ReplaceNonAlnumRuns(s, sep, i + 1)

normalizeServiceToken(name) == toUpperCase(ReplaceNonAlnumRuns(name, "_", 1))

\* White space removed by String.prototype.trim.
WhiteSpace == {" ", "\t", "\n", "\r"}

RECURSIVE TrimStart(_)
TrimStart(s) ==
  IF s # "" /\ Ch(s, 1) \in WhiteSpace THEN TrimStart(SubSeq(s, 2, Len(s))) ELSE s

RECURSIVE TrimEnd(_)
TrimEnd(s) ==
  IF s # "" /\ Ch(s, Len(s)) \in WhiteSpace THEN TrimEnd(SubSeq(s, 1, Len(s) - 1)) ELSE s

Trim(s) == TrimEnd(TrimStart(s))

StartsWith(s, prefix) ==
  Len(prefix) <= Len(s) /\ SubSeq(s, 1, Len(prefix)) = prefix

EndsWith(s, suffix) ==
  Len(suffix) <= Len(s) /\ SubSeq(s, Len(s) - Len(suffix) + 1, Len(s)) = suffix

\* A service declaration has the field (it is not undefined).
Has(cfg, field) == field \in DOMAIN cfg

\* A string field of a declaration is truthy: present and not ''.
Truthy(cfg, field) == Has(cfg, field) /\ cfg[field] # ""

\* /\bdb\b/i: "db" with no word character on either side.
HasDbWord(name) ==
  LET lower == toLowerCase(name)
  IN \E i \in 1..Len(lower) :
       /\ i + 1 <= Len(lower)
       /\ SubSeq(lower, i, i + 1) = "db"
       /\ Ch(lower, i - 1) \notin NameChars
       /\ Ch(lower, i + 2) \notin NameChars

\* /database|postgres|\bdb\b/i.test(serviceName)
NameLooksLikeDatabase(name) ==
  LET lower == toLowerCase(name)
  IN \/ \E i \in 1..Len(lower) : i + 7 <= Len(lower) /\ SubSeq(lower, i, i + 7) = "database"
     \/ \E i \in 1..Len(lower) : i + 7 <= Len(lower) /\ SubSeq(lower, i, i + 7) = "postgres"
     \/ HasDbWord(name)

isDatabaseService(serviceName, serviceConfig) ==
  LET type == toLowerCase(IF Has(serviceConfig, "type") THEN serviceConfig["type"]
                          ELSE IF Has(serviceConfig, "kind") THEN serviceConfig["kind"]
                          ELSE "")
  IN \/ type \in {"db", "database"}
     \/ Truthy(serviceConfig, "db_key")
     \/ NameLooksLikeDatabase(serviceName)

\* serviceName.replace(/(^db-|-(db|database|postgres|postgresql)$)/gi, ''):
\* a leading "db-" is cut, and so is one of the suffixes where it ends the
\* rest of the name.
StripDbAffixes(name) ==
  LET lower == toLowerCase(name)
      cutHead == StartsWith(lower, "db-")
      rest == IF cutHead THEN SubSeq(name, 4, Len(name)) ELSE name
      lrest == toLowerCase(rest)
      suffixes == {x \in {"-db", "-database", "-postgres", "-postgresql"} : EndsWith(lrest, x)}
  IN IF suffixes = {} THEN rest
     ELSE LET x == CHOOSE y \in suffixes : TRUE
          IN SubSeq(rest, 1, Len(rest) - Len(x))

getDbKey(serviceName, serviceConfig) ==
  IF Has(serviceConfig, "db_key") /\ Trim(serviceConfig["db_key"]) # ""
    THEN toLowerCase(Trim(serviceConfig["db_key"]))
    ELSE toLowerCase(ReplaceNonAlnumRuns(StripDbAffixes(serviceName), "-", 1))

dbPrefix(dbKey) ==
  LET normalized == toLowerCase(dbKey)
  IN IF normalized = "security" THEN "SECURITY"
     ELSE IF normalized = "auth" THEN "AUTH"
     ELSE IF normalized = "wallet" THEN "WALLET"
     ELSE normalizeServiceToken(normalized)

\* toBoolean on what a typed declaration holds: undefined or a boolean.
toBoolean(cfg, field, defaultValue) ==
  IF Has(cfg, field) THEN cfg[field] ELSE defaultValue

\* String(b) of a boolean.
BoolString(b) == IF b THEN "true" ELSE "false"

\* /^\d+$/.test(s)
RECURSIVE AllDigits(_)
AllDigits(s) ==
  IF s = "" THEN TRUE
  ELSE Ch(s, 1) \in Digits /\ AllDigits(SubSeq(s, 2, Len(s)))

IsDecimal(s) == s # "" /\ AllDigits(s)

\* Number(s) of a string of digits.
RECURSIVE ToNumber(_)
ToNumber(s) ==
  IF s = "" THEN 0
  ELSE 10 * ToNumber(SubSeq(s, 1, Len(s) - 1)) + (CharCodes[Ch(s, Len(s))] - 48)

\* String(n) of a non-negative integer.
RECURSIVE NumberString(_)
NumberString(n) ==
  LET digit == SubSeq("0123456789", (n % 10) + 1, (n % 10) + 1)
  IN IF n < 10 THEN digit ELSE NumberString(n \div 10) \o digit

\* a < b in the order Array.prototype.sort uses by default (code units),
\* the first i - 1 characters being equal.
RECURSIVE StrLessFrom(_, _, _)
StrLessFrom(a, b, i) ==
  IF i > Len(b) THEN FALSE
  ELSE IF i > Len(a) THEN TRUE
  ELSE IF SubSeq(a, i, i) = SubSeq(b, i, i) THEN StrLessFrom(a, b, i + 1)
  ELSE CharCodes[SubSeq(a, i, i)] < CharCodes[SubSeq(b, i, i)]

StrLess(a, b) == StrLessFrom(a, b, 1)

\* k put in its place in a sorted list.
RECURSIVE InsertSorted(_, _)
InsertSorted(k, sorted) ==
  IF sorted = <<>> THEN <<k>>
  ELSE IF StrLess(k, Head(sorted)) THEN <<k>> \o sorted
  ELSE <<Head(sorted)>> \o InsertSorted(k, Tail(sorted))

\* Object.keys(env).sort()
RECURSIVE SortedKeys(_)
SortedKeys(keys) ==
  IF keys = {} THEN <<>>
  ELSE LET k == CHOOSE x \in keys : TRUE
       IN InsertSorted(k, SortedKeys(keys \ {k}))

RECURSIVE EnvLines(_, _)
EnvLines(env, keys) ==
  IF keys = <<>> THEN <<>>
  ELSE <<Head(keys) \o "=" \o env[Head(keys)]>> \o EnvLines(env, Tail(keys))

\* lines.join('\n')
RECURSIVE JoinLines(_)
JoinLines(lines) ==
  IF lines = <<>> THEN ""
  ELSE IF Len(lines) = 1 THEN lines[1]
  ELSE lines[1] \o "\n" \o JoinLines(Tail(lines))

serializeEnv(env) == JoinLines(EnvLines(env, SortedKeys(DOMAIN env))) \o "\n"

(***************************************************************************)
(* generator.ts: buildRuntimeConfig                                        *)
(***************************************************************************)

\* An optional string: <<>> is undefined, <<v>> is the string v.
None == <<>>

Some(v) == <<v>>

\* if (x): defined and not ''.
IsSet(opt) == opt # <<>> /\ opt[1] # ""

\* a || b on optional strings.
OrElse(a, b) == IF IsSet(a) THEN a ELSE b

\* obj[key] on an object whose keys are never members of Object.prototype.
Get(obj, key) == IF key \in DOMAIN obj THEN <<obj[key]>> ELSE <<>>

SERVICE_DB_MAP ==
  [s \in {"authorizer", "api-security", "api-auth", "api-wallet"} |->
     CASE s = "authorizer"   -> "security"
       [] s = "api-security" -> "security"
       [] s = "api-auth"     -> "auth"
       [] s = "api-wallet"   -> "wallet"]

\* The profile name given on the command line and the workspace root found.
ProfileName == "metro"

WorkspaceRoot == "/ws"

\* String(profile.stack_env || profile.profile || profileName)
StackEnvOf(profile) ==
  IF Truthy(profile, "stack_env") THEN profile["stack_env"]
  ELSE IF Truthy(profile, "profile") THEN profile["profile"]
  ELSE ProfileName

\* A key that is a canonical array index: "0", or digits with no leading 0.
IsArrayIndex(key) == IsDecimal(key) /\ (key = "0" \/ Ch(key, 1) # "0")

\* An entry put in its place in a list of entries sorted by numeric key.
RECURSIVE InsertByIndex(_, _)
InsertByIndex(entry, sorted) ==
  IF sorted = <<>> THEN <<entry>>
  ELSE IF ToNumber(entry[1]) < ToNumber(Head(sorted)[1]) THEN <<entry>> \o sorted
  ELSE <<Head(sorted)>> \o InsertByIndex(entry, Tail(sorted))

\* The first i entries whose key is an array index, in ascending numeric
\* order.
RECURSIVE IndexEntries(_, _)
IndexEntries(entries, i) ==
  IF i = 0 THEN <<>>
  ELSE IF IsArrayIndex(entries[i][1])
    THEN InsertByIndex(entries[i], IndexEntries(entries, i - 1))
  ELSE IndexEntries(entries, i - 1)

\* The entries from the i-th on whose key is no array index, in the order
\* they were created.
RECURSIVE NamedEntries(_, _)
NamedEntries(entries, i) ==
  IF i > Len(entries) THEN <<>>
  ELSE IF IsArrayIndex(entries[i][1]) THEN NamedEntries(entries, i + 1)
  ELSE <<entries[i]>> \o NamedEntries(entries, i + 1)

\* Object.entries of the plain object YAML.parse builds from a mapping
\* written in the order of `mapping`: the keys that are array indices come
\* first, in ascending numeric order, then the other keys in the order the
\* mapping declares them.
ObjectEntries(mapping) == IndexEntries(mapping, Len(mapping)) \o NamedEntries(mapping, 1)

\* Object.entries(profile.vars ?? {}), (profile.common_env ?? {}),
\* (profile.services ?? {}), (serviceConfig.env ?? {}).
EntriesOf(obj, field) == IF Has(obj, field) THEN ObjectEntries(obj[field]) ELSE <<>>

\* generatedContext before the loops: STACK_ENV, WORKSPACE_ROOT and, when
\* the profile declares nginx.port, NGINX_PORT.
InitialGeneratedContext(profile) ==
  LET base == [k \in {"STACK_ENV", "WORKSPACE_ROOT"} |->
                 IF k = "STACK_ENV" THEN StackEnvOf(profile)
                 ELSE IF Truthy(profile, "workspace_root") THEN profile["workspace_root"]
                 ELSE WorkspaceRoot]
  IN IF Has(profile, "nginx") /\ Has(profile["nginx"], "port")
       THEN Put(base, "NGINX_PORT", profile["nginx"]["port"])
       ELSE base

\* A faulty merge in which the process environment is spread last.
contextEnvironmentLast(sourceContext, generatedContext) ==
  Merge(generatedContext, sourceContext)

\* contextForInterpolation(): { ...sourceContext, ...generatedContext }
contextForInterpolation(sourceContext, generatedContext) ==
  Merge(sourceContext, generatedContext)

\* for (const [key, value] of Object.entries(vars)), from entry i on.
RECURSIVE VarsLoop(_, _, _, _)
VarsLoop(generatedContext, sourceContext, entries, i) ==
  IF i > Len(entries) THEN generatedContext
  ELSE VarsLoop(
         Put(generatedContext, entries[i][1],
             interpolate(entries[i][2],
                         contextForInterpolation(sourceContext, generatedContext))),
         sourceContext, entries, i + 1)

\* for (const [key, value] of Object.entries(profileCommonEnv)), from entry
\* i on; st holds generatedContext and commonEnv.
RECURSIVE CommonEnvLoop(_, _, _, _)
CommonEnvLoop(st, sourceContext, entries, i) ==
  IF i > Len(entries) THEN st
  ELSE LET resolvedValue ==
             interpolate(entries[i][2],
                         Merge(contextForInterpolation(sourceContext, st.generatedContext),
                               st.commonEnv))
       IN CommonEnvLoop(
            [generatedContext |-> Put(st.generatedContext, entries[i][1], resolvedValue),
             commonEnv |-> Put(st.commonEnv, entries[i][1], resolvedValue)],
            sourceContext, entries, i + 1)

\* A connection field of a database service: interpolated when the
\* declaration holds a truthy value, else undefined.
DbField(serviceConfig, field, currentContext) ==
  IF Truthy(serviceConfig, field)
    THEN Some(interpolate(serviceConfig[field], currentContext))
    ELSE None

\* if (value) generatedContext[key] = value
PutIfSet(obj, key, opt) == IF IsSet(opt) THEN Put(obj, key, opt[1]) ELSE obj

\* A faulty host rule that gives every database service the local host name.
DbHostAlwaysLocal(serviceConfig, dbKey, useLocal, currentContext) ==
  IF Truthy(serviceConfig, "host")
    THEN Some(interpolate(serviceConfig["host"], currentContext))
  ELSE Some(dbKey \o "-postgresql")

\* The host of a database service: the explicit host interpolated, else
\* <key>-postgresql when use_local, else undefined.
DbHost(serviceConfig, dbKey, useLocal, currentContext) ==
  IF Truthy(serviceConfig, "host")
    THEN Some(interpolate(serviceConfig["host"], currentContext))
  ELSE IF useLocal THEN Some(dbKey \o "-postgresql")
  ELSE None

\* The DbConfig literal of lines 149-158; fields holds user, password and
\* name.
DbConfigWith(serviceConfig, dbKey, useLocal, fields, currentContext) ==
  [dbKey |-> dbKey,
   prefix |-> dbPrefix(dbKey),
   useLocal |-> useLocal,
   host |-> DbHost(serviceConfig, dbKey, useLocal, currentContext),
   user |-> fields["user"],
   password |-> fields["password"],
   name |-> fields["name"],
   port |-> IF Has(serviceConfig, "port")
              THEN Some(interpolate(serviceConfig["port"], currentContext))
              ELSE None]

\* The DbConfig built for a database service (lines 133-158).
DbConfigOf(serviceName, serviceConfig, currentContext) ==
  DbConfigWith(serviceConfig,
               getDbKey(serviceName, serviceConfig),
               toBoolean(serviceConfig, "use_local", FALSE),
               [f \in {"user", "password", "name"} |->
                  DbField(serviceConfig, f, currentContext)],
               currentContext)

\* generatedContext after lines 162-167: USE_LOCAL_<prefix>_DB always, the
\* five connection entries when their value is truthy.
DatabaseEntries(generatedContext, db) ==
  PutIfSet(
    PutIfSet(
      PutIfSet(
        PutIfSet(
          PutIfSet(
            Put(generatedContext, "USE_LOCAL_" \o db.prefix \o "_DB", BoolString(db.useLocal)),
            db.prefix \o "_DB_HOST", db.host),
          db.prefix \o "_DB_USER", db.user),
        db.prefix \o "_DB_PASSWORD", db.password),
      db.prefix \o "_DB_NAME", db.name),
    db.prefix \o "_DB_PORT", db.port)

\* dbConfigs.set(dbKey, dbConfig) and the entries of lines 162-167.
DatabaseWrite(st, db) ==
  [generatedContext |-> DatabaseEntries(st.generatedContext, db),
   dbConfigs |-> Put(st.dbConfigs, db.dbKey, db),
   enabledServices |-> st.enabledServices]

\* One iteration of the services loop for a database service: st holds
\* generatedContext, dbConfigs and enabledServices.
DatabaseStep(st, sourceContext, serviceName, serviceConfig) ==
  DatabaseWrite(st, DbConfigOf(serviceName, serviceConfig,
                               contextForInterpolation(sourceContext, st.generatedContext)))

\* path.join(workspaceRoot, String(serviceConfig.repo || path.join('repos',
\* serviceName))), relative to the workspace root.
ServiceRepoPath(serviceName, serviceConfig) ==
  IF Truthy(serviceConfig, "repo") THEN serviceConfig["repo"]
  ELSE "repos/" \o serviceName

\* serviceConfig.enabled !== false
DeclaredEnabled(serviceConfig) ==
  ~(Has(serviceConfig, "enabled") /\ serviceConfig["enabled"] = FALSE)

\* A faulty rule that enables a service whose repository is missing.
EffectiveEnabledNoRepoCheck(serviceName, serviceConfig, dirs) ==
  DeclaredEnabled(serviceConfig)

\* enabled && repoExists
EffectiveEnabled(serviceName, serviceConfig, dirs) ==
  /\ DeclaredEnabled(serviceConfig)
  /\ ServiceRepoPath(serviceName, serviceConfig) \in dirs

\* resolvedServicePort (lines 190-192).
ResolvedServicePort(serviceConfig, ctx) ==
  IF Has(serviceConfig, "port") THEN Some(interpolate(serviceConfig["port"], ctx))
  ELSE None

\* A resolution that pays no attention to a declared debug port.
ResolvedServiceDebugPortFromPortOnly(serviceConfig, ctx, resolvedServicePort) ==
  IF IsSet(resolvedServicePort) /\ IsDecimal(resolvedServicePort[1])
    THEN Some(NumberString(ToNumber(resolvedServicePort[1]) + 2))
  ELSE None

\* resolvedServiceDebugPort (lines 194-198).
ResolvedServiceDebugPort(serviceConfig, ctx, resolvedServicePort) ==
  IF Has(serviceConfig, "debug_port")
    THEN Some(interpolate(serviceConfig["debug_port"], ctx))
  ELSE IF IsSet(resolvedServicePort) /\ IsDecimal(resolvedServicePort[1])
    THEN Some(NumberString(ToNumber(resolvedServicePort[1]) + 2))
  ELSE None

\* generatedContext[`${token}_PORT`] = resolvedServicePort || ''
WritePort(g, serviceConfig, token, resolvedServicePort) ==
  IF Has(serviceConfig, "port") THEN Put(g, token \o "_PORT", resolvedServicePort[1])
  ELSE g

\* generatedContext[`${token}_DEBUG_PORT`] = resolvedServiceDebugPort
WriteDebugPort(g, token, resolvedServiceDebugPort) ==
  IF IsSet(resolvedServiceDebugPort)
    THEN Put(g, token \o "_DEBUG_PORT", resolvedServiceDebugPort[1])
  ELSE g

\* generatedContext[`${token}_CMD`] = interpolate(String(serviceConfig.command),
\* contextForInterpolation())
WriteCommand(g, sourceContext, serviceConfig, token) ==
  IF Has(serviceConfig, "command")
    THEN Put(g, token \o "_CMD",
             interpolate(serviceConfig["command"], contextForInterpolation(sourceContext, g)))
  ELSE g

\* Lines 200-208 for a service that is effectively enabled.
ApplicationEntries(g, sourceContext, serviceConfig, token, resolvedServicePort) ==
  WriteCommand(
    WriteDebugPort(
      WritePort(g, serviceConfig, token, resolvedServicePort),
      token,
      ResolvedServiceDebugPort(serviceConfig, contextForInterpolation(sourceContext, g),
                               resolvedServicePort)),
    sourceContext, serviceConfig, token)

\* Lines 185-208: a service that is not effectively enabled changes
\* nothing.
ApplicationWrite(st, sourceContext, serviceName, serviceConfig, effectiveEnabled) ==
  IF effectiveEnabled
    THEN [generatedContext |->
            ApplicationEntries(
              st.generatedContext, sourceContext, serviceConfig,
              normalizeServiceToken(serviceName),
              ResolvedServicePort(serviceConfig,
                                  contextForInterpolation(sourceContext, st.generatedContext))),
          dbConfigs |-> st.dbConfigs,
          enabledServices |-> Append(st.enabledServices, serviceName)]
    ELSE st

\* One iteration of the services loop for an application service.
ApplicationStep(st, sourceContext, dirs, serviceName, serviceConfig) ==
  ApplicationWrite(st, sourceContext, serviceName, serviceConfig,
                   EffectiveEnabled(serviceName, serviceConfig, dirs))

\* for (const [serviceName, service] of Object.entries(services)), entries
\* i..n.
RECURSIVE ServicesLoop(_, _, _, _, _, _)
ServicesLoop(st, sourceContext, dirs, entries, i, n) ==
  IF i > n THEN st
  ELSE ServicesLoop(
         IF isDatabaseService(entries[i][1], entries[i][2])
           THEN DatabaseStep(st, sourceContext, entries[i][1], entries[i][2])
           ELSE ApplicationStep(st, sourceContext, dirs, entries[i][1], entries[i][2]),
         sourceContext, dirs, entries, i + 1, n)

\* The RuntimeConfig returned (lines 211-222): c is what the common_env
\* loop left, s what the services loop left.
RuntimeRecord(profile, sourceContext, c, s) ==
  [profile |-> profile,
   stackEnv |-> StackEnvOf(profile),
   sourceContext |-> sourceContext,
   generatedContext |-> s.generatedContext,
   commonEnv |-> c.commonEnv,
   dbConfigs |-> s.dbConfigs,
   enabledServices |-> s.enabledServices]

\* Lines 124-222, c being what the common_env loop left.
RuntimeFromCommonEnv(profile, sourceContext, dirs, n, c) ==
  RuntimeRecord(
    profile, sourceContext, c,
    ServicesLoop([generatedContext |-> c.generatedContext,
                  dbConfigs |-> EmptyObj,
                  enabledServices |-> <<>>],
                 sourceContext, dirs, EntriesOf(profile, "services"), 1, n))

\* buildRuntimeConfig with the services loop stopped after its n-th entry;
\* env is process.env (toStringMap keeps its string entries).
RuntimeAfter(profile, env, dirs, n) ==
  RuntimeFromCommonEnv(
    profile, env, dirs, n,
    CommonEnvLoop([generatedContext |->
                     VarsLoop(InitialGeneratedContext(profile), env,
                              EntriesOf(profile, "vars"), 1),
                   commonEnv |-> EmptyObj],
                  env, EntriesOf(profile, "common_env"), 1))

buildRuntimeConfig(profile, env, dirs) ==
  RuntimeAfter(profile, env, dirs, Len(EntriesOf(profile, "services")))

(***************************************************************************)
(* generator.ts: ensureDatabaseUrls, buildServiceEnv and the env writers   *)
(***************************************************************************)

\* A faulty URL without the schema parameter.
DbUrlWithoutSchema(user, password, host, port, name) ==
  "postgresql://" \o user \o ":" \o password \o "@" \o host \o ":" \o port \o "/" \o name

\* `postgresql://${user}:${password}@${host}:${port}/${name}?schema=public`
DbUrl(user, password, host, port, name) ==
  "postgresql://" \o user \o ":" \o password \o "@" \o host \o ":" \o port
    \o "/" \o name \o "?schema=public"

\* A faulty rule without the authorizer exception.
WantsReportsUrlEveryService(serviceName, envMap) ==
  ~IsSet(Get(envMap, "REPORTS_DATABASE_URL"))

\* if (!envMap.REPORTS_DATABASE_URL && serviceName !== 'authorizer')
WantsReportsUrl(serviceName, envMap) ==
  ~IsSet(Get(envMap, "REPORTS_DATABASE_URL")) /\ serviceName # "authorizer"

\* A faulty rule that always assigns the derived URL.
WantsDatabaseUrlAlways(envMap) == TRUE

\* if (!envMap.DATABASE_URL)
WantsDatabaseUrl(envMap) == ~IsSet(Get(envMap, "DATABASE_URL"))

\* The five connection values ensureDatabaseUrls reads (lines 237-241): the
\* service's own env entry first, then the descriptor; the port falls back
\* to 5432.
ConnectionValues(envMap, db) ==
  [host |-> OrElse(Get(envMap, db.prefix \o "_DB_HOST"), db.host),
   user |-> OrElse(Get(envMap, db.prefix \o "_DB_USER"), db.user),
   password |-> OrElse(Get(envMap, db.prefix \o "_DB_PASSWORD"), db.password),
   name |-> OrElse(Get(envMap, db.prefix \o "_DB_NAME"), db.name),
   port |-> OrElse(OrElse(Get(envMap, db.prefix \o "_DB_PORT"), db.port), Some("5432"))]

\* A faulty completeness test that forgets the password.
ConnectionCompleteNoPassword(cv) ==
  IsSet(cv.user) /\ IsSet(cv.host) /\ IsSet(cv.name)

\* if (!user || !password || !host || !name) return
ConnectionComplete(cv) ==
  IsSet(cv.user) /\ IsSet(cv.password) /\ IsSet(cv.host) /\ IsSet(cv.name)

\* db.password when it is undefined prints as "undefined" in a template
\* literal; a set value prints as itself.
TemplateText(opt) == IF opt = <<>> THEN "undefined" ELSE opt[1]

\* ensureDatabaseUrls: the envMap it leaves behind.
\* if (!envMap.DATABASE_URL) envMap.DATABASE_URL = dbUrl
AssignDatabaseUrl(envMap, dbUrl) ==
  IF WantsDatabaseUrl(envMap) THEN Put(envMap, "DATABASE_URL", dbUrl) ELSE envMap

\* if (!envMap.REPORTS_DATABASE_URL && serviceName !== 'authorizer')
\*   envMap.REPORTS_DATABASE_URL = dbUrl
AssignReportsUrl(serviceName, envMap, dbUrl) ==
  IF WantsReportsUrl(serviceName, envMap) THEN Put(envMap, "REPORTS_DATABASE_URL", dbUrl)
  ELSE envMap

\* Lines 243-255, cv being the five connection values.
AssignUrls(serviceName, envMap, cv) ==
  IF ~ConnectionComplete(cv) THEN envMap
  ELSE AssignReportsUrl(
         serviceName,
         AssignDatabaseUrl(envMap,
                           DbUrl(TemplateText(cv.user), TemplateText(cv.password),
                                 TemplateText(cv.host), TemplateText(cv.port),
                                 TemplateText(cv.name))),
         DbUrl(TemplateText(cv.user), TemplateText(cv.password),
               TemplateText(cv.host), TemplateText(cv.port),
               TemplateText(cv.name)))

ensureDatabaseUrls(serviceName, envMap, runtime) ==
  IF serviceName \notin DOMAIN SERVICE_DB_MAP THEN envMap
  ELSE IF SERVICE_DB_MAP[serviceName] \notin DOMAIN runtime.dbConfigs THEN envMap
  ELSE AssignUrls(serviceName, envMap,
                  ConnectionValues(envMap, runtime.dbConfigs[SERVICE_DB_MAP[serviceName]]))

\* interpolateRecord(input, context): every entry of input interpolated
\* against the same context, from entry i on, laid over output.
RECURSIVE interpolateRecord(_, _, _, _)
interpolateRecord(output, entries, context, i) ==
  IF i > Len(entries) THEN output
  ELSE interpolateRecord(Put(output, entries[i][1], interpolate(entries[i][2], context)),
                         entries, context, i + 1)

\* A faulty merge in which the shared environment wins over the override.
AssignOverridesSharedWins(envMap, resolvedProfileEnv) == Merge(resolvedProfileEnv, envMap)

\* Object.assign(envMap, resolvedProfileEnv)
AssignOverrides(envMap, resolvedProfileEnv) == Merge(envMap, resolvedProfileEnv)

\* Lines 266-274: the service's overrides, interpolated, laid over envMap.
WithOverrides(serviceConfig, interpolationBase, envMap) ==
  AssignOverrides(envMap,
                  interpolateRecord(EmptyObj, EntriesOf(serviceConfig, "env"),
                                    Merge(interpolationBase, envMap), 1))

\* Lines 276-281: API_PORT from the declared port when it is not set yet.
WithApiPort(serviceConfig, interpolationBase, envMap) ==
  IF Has(serviceConfig, "port") /\ ~IsSet(Get(envMap, "API_PORT"))
    THEN Put(envMap, "API_PORT",
             interpolate(serviceConfig["port"], Merge(interpolationBase, envMap)))
  ELSE envMap

\* Lines 283-285: LOG_LEVEL from the generated context when it is not set.
WithLogLevel(runtime, envMap) ==
  IF ~IsSet(Get(envMap, "LOG_LEVEL")) /\ IsSet(Get(runtime.generatedContext, "LOG_LEVEL"))
    THEN Put(envMap, "LOG_LEVEL", runtime.generatedContext["LOG_LEVEL"])
  ELSE envMap

\* Lines 264-289 on the interpolation base of lines 259-262.
ServiceEnvOn(serviceName, serviceConfig, runtime, interpolationBase) ==
  ensureDatabaseUrls(
    serviceName,
    WithLogLevel(runtime,
                 WithApiPort(serviceConfig, interpolationBase,
                             WithOverrides(serviceConfig, interpolationBase,
                                           runtime.commonEnv))),
    runtime)

buildServiceEnv(serviceName, serviceConfig, runtime) ==
  ServiceEnvOn(serviceName, serviceConfig, runtime,
               Merge(runtime.sourceContext, runtime.generatedContext))

\* runtime.profile.services[serviceName]
ServiceConfigOf(profile, serviceName) ==
  LET entries == EntriesOf(profile, "services")
      i == CHOOSE j \in 1..Len(entries) : entries[j][1] = serviceName
  IN entries[i][2]

\* The elements of a list, as a set.
Range(seq) == {seq[i] : i \in 1..Len(seq)}

\* fileName.replace(/\.env$/, '')
StripEnvSuffix(fileName) ==
  IF EndsWith(fileName, ".env") THEN SubSeq(fileName, 1, Len(fileName) - 4) ELSE fileName

\* A faulty loop that deletes nothing.
KeptFilesAll(dir, enabledSet) == DOMAIN dir

\* The files of the generated services directory that the stale-file loop
\* (lines 675-686) keeps: those not ending in .env, and those of enabled
\* services.
KeptFiles(dir, enabledSet) ==
  {f \in DOMAIN dir : ~EndsWith(f, ".env") \/ StripEnvSuffix(f) \in enabledSet}

\* writeGeneratedEnvs on the generated services directory: dir maps the
\* name of every regular file in it to its contents.
writeGeneratedEnvs(runtime, dir) ==
  LET enabledSet == Range(runtime.enabledServices)
      kept == KeptFiles(dir, enabledSet)
  IN [f \in kept \cup {s \o ".env" : s \in enabledSet} |->
        IF f \in {s \o ".env" : s \in enabledSet}
          THEN serializeEnv(buildServiceEnv(StripEnvSuffix(f),
                                            ServiceConfigOf(runtime.profile, StripEnvSuffix(f)),
                                            runtime))
          ELSE dir[f]]

\* writeGeneratedStackEnv: the contents written to stack.env.
writeGeneratedStackEnv(runtime) == serializeEnv(runtime.generatedContext)

\* The objects the env writer reads and writes, by name: the five of the
\* runtime, and the object the local name envMap of buildServiceEnv stands
\* for.
ObjectsOf(runtime) ==
  [o \in {"sourceContext", "generatedContext", "commonEnv", "dbConfigs",
          "enabledServices", "envMap"} |->
     IF o = "envMap" THEN EmptyObj ELSE runtime[o]]

\* A faulty envMap that is runtime.commonEnv itself.
EnvMapObjectShared == "commonEnv"

\* const envMap = { ...runtime.commonEnv } (line 264): envMap is an object
\* of its own.
EnvMapObject == "envMap"

\* A statement whose target is envMap: the object envMap stands for becomes
\* value, every other object stays.
SetEnvMap(objects, value) ==
  [o \in DOMAIN objects |-> IF o = EnvMapObject THEN value ELSE objects[o]]

\* Lines 264-274 on the objects, base being the interpolation base.
ObjectsWithOverrides(serviceConfig, base, objects) ==
  SetEnvMap(objects, WithOverrides(serviceConfig, base, objects[EnvMapObject]))

\* Lines 276-281 on the objects.
ObjectsWithApiPort(serviceConfig, base, objects) ==
  SetEnvMap(objects, WithApiPort(serviceConfig, base, objects[EnvMapObject]))

\* Lines 283-285 on the objects.
ObjectsWithLogLevel(objects) ==
  SetEnvMap(objects, WithLogLevel(objects, objects[EnvMapObject]))

\* Line 287 on the objects.
ObjectsWithDatabaseUrls(serviceName, objects) ==
  SetEnvMap(objects, ensureDatabaseUrls(serviceName, objects[EnvMapObject], objects))

\* buildServiceEnv on the objects, base being the interpolation base of
\* lines 259-262.
ObjectsAfterServiceEnv(serviceName, serviceConfig, base, objects) ==
  ObjectsWithDatabaseUrls(
    serviceName,
    ObjectsWithLogLevel(
      ObjectsWithApiPort(
        serviceConfig, base,
        ObjectsWithOverrides(serviceConfig, base,
                             SetEnvMap(objects, objects["commonEnv"])))))

\* The loop of writeGeneratedEnvs (lines 689-708) on the objects, from the
\* i-th enabled service on.
RECURSIVE ObjectsAfterEnvs(_, _, _)
ObjectsAfterEnvs(profile, objects, i) ==
  IF i > Len(objects["enabledServices"]) THEN objects
  ELSE ObjectsAfterEnvs(
         profile,
         ObjectsAfterServiceEnv(
           objects["enabledServices"][i],
           ServiceConfigOf(profile, objects["enabledServices"][i]),
           Merge(objects["sourceContext"], objects["generatedContext"]),
           objects),
         i + 1)

\* The runtime with the given objects in place of its own.
RuntimeWith(runtime, objects) ==
  [profile |-> runtime.profile,
   stackEnv |-> runtime.stackEnv,
   sourceContext |-> objects["sourceContext"],
   generatedContext |-> objects["generatedContext"],
   commonEnv |-> objects["commonEnv"],
   dbConfigs |-> objects["dbConfigs"],
   enabledServices |-> objects["enabledServices"]]

\* The runtime as the writers leave it.  writeGeneratedEnvs assigns to
\* envMap only; writeGeneratedStackEnv, writeGeneratedCompose and
\* writeGeneratedNginx assign to objects they made themselves (the key list
\* of serializeEnv, the parsed and pruned manifest, the route list, spread
\* copies of the contexts) and to no object of the runtime.
RuntimeAfterWriters(runtime) ==
  RuntimeWith(runtime, ObjectsAfterEnvs(runtime.profile, ObjectsOf(runtime), 1))

(***************************************************************************)
(* generator.ts: pruneCompose, ensureComposeDebugPorts and the port        *)
(* resolvers.  A manifest is the object YAML.parse returns: services maps  *)
(* a name to a definition or to null; depends_on is a list of names or a   *)
(* mapping from names to conditions; ports is a list of port mappings.     *)
(***************************************************************************)

\* A service definition that is null (a key with nothing under it).
NullService == [null |-> TRUE]

\* serviceConfig && typeof serviceConfig === 'object'
IsObject(serviceConfig) == ~Has(serviceConfig, "null")

\* depends_on written as a list of names.
DependsList(items) == [list |-> items]

\* depends_on written as a mapping from names to conditions.
DependsMap(entries) == [map |-> entries]

\* compose.services ?? {}
ServicesOf(compose) == IF Has(compose, "services") THEN compose["services"] ELSE EmptyObj

\* dependsOn.filter((dependency) => !servicesToRemove.has(String(dependency)))
RECURSIVE FilterDependencies(_, _)
FilterDependencies(dependsOn, servicesToRemove) ==
  IF dependsOn = <<>> THEN <<>>
  ELSE IF Head(dependsOn) \in servicesToRemove
    THEN FilterDependencies(Tail(dependsOn), servicesToRemove)
  ELSE <<Head(dependsOn)>> \o FilterDependencies(Tail(dependsOn), servicesToRemove)

\* for (const serviceName of servicesToRemove) delete mutable[serviceName]
DeleteDependencies(mutable, servicesToRemove) ==
  [n \in (DOMAIN mutable) \ servicesToRemove |-> mutable[n]]

\* A pruner that filters the list form only.
PruneDependsOnListOnly(serviceConfig, dependsOn, servicesToRemove) ==
  IF Has(dependsOn, "list")
    THEN Put(serviceConfig, "depends_on",
             DependsList(FilterDependencies(dependsOn["list"], servicesToRemove)))
  ELSE serviceConfig

\* Lines 305-314 for a depends_on that is there.
PruneDependsOn(serviceConfig, dependsOn, servicesToRemove) ==
  IF Has(dependsOn, "list")
    THEN Put(serviceConfig, "depends_on",
             DependsList(FilterDependencies(dependsOn["list"], servicesToRemove)))
  ELSE Put(serviceConfig, "depends_on",
           DependsMap(DeleteDependencies(dependsOn["map"], servicesToRemove)))

\* The body of the loop over Object.values(services) (lines 300-315).
PruneService(serviceConfig, servicesToRemove) ==
  IF ~IsObject(serviceConfig) THEN serviceConfig
  ELSE IF ~Has(serviceConfig, "depends_on") THEN serviceConfig
  ELSE PruneDependsOn(serviceConfig, serviceConfig["depends_on"], servicesToRemove)

\* Lines 296-317 on the object `compose`.
PruneServices(compose, services, servicesToRemove) ==
  Put(compose, "services",
      [n \in (DOMAIN services) \ servicesToRemove |->
         PruneService(services[n], servicesToRemove)])

\* JSON.parse(JSON.stringify(composeSource)): a new object with the same
\* contents (a manifest holds strings, lists, mappings and nulls only).
JsonClone(composeSource) == composeSource

\* A pruner that works on its argument instead of a copy.
pruneComposeInPlace(composeSource, servicesToRemove) ==
  [composeSource |-> PruneServices(composeSource, ServicesOf(composeSource), servicesToRemove),
   compose |-> PruneServices(composeSource, ServicesOf(composeSource), servicesToRemove)]

\* pruneCompose: the object returned (compose) and the object passed as it
\* is after the call (composeSource).
pruneCompose(composeSource, servicesToRemove) ==
  [composeSource |-> composeSource,
   compose |-> PruneServices(JsonClone(composeSource), ServicesOf(JsonClone(composeSource)),
                             servicesToRemove)]

\* The profile declares serviceName (runtime.profile.services?.[serviceName]
\* is not undefined).
ServiceDeclared(profile, serviceName) ==
  \E e \in Range(EntriesOf(profile, "services")) : e[1] = serviceName

\* service?.port !== undefined, service?.debug_port !== undefined
DeclaresField(profile, serviceName, field) ==
  ServiceDeclared(profile, serviceName) /\ Has(ServiceConfigOf(profile, serviceName), field)

\* interpolate(String(service.x), {...runtime.sourceContext,
\* ...runtime.generatedContext})
ResolveDeclared(runtime, serviceName, field) ==
  interpolate(ServiceConfigOf(runtime.profile, serviceName)[field],
              Merge(runtime.sourceContext, runtime.generatedContext))

\* resolveServicePort
resolveServicePort(runtime, serviceName) ==
  IF Truthy(runtime.generatedContext, normalizeServiceToken(serviceName) \o "_PORT")
    THEN runtime.generatedContext[normalizeServiceToken(serviceName) \o "_PORT"]
  ELSE IF DeclaresField(runtime.profile, serviceName, "port")
    THEN ResolveDeclared(runtime, serviceName, "port")
  ELSE "80"

\* Lines 468-473: the service port plus two, if the port is a number.
DebugPortFromServicePort(servicePort) ==
  IF IsDecimal(servicePort) THEN Some(NumberString(ToNumber(servicePort) + 2)) ELSE None

\* resolveServiceDebugPort: None is undefined.
resolveServiceDebugPort(runtime, serviceName) ==
  IF Truthy(runtime.generatedContext, normalizeServiceToken(serviceName) \o "_DEBUG_PORT")
    THEN Some(runtime.generatedContext[normalizeServiceToken(serviceName) \o "_DEBUG_PORT"])
  ELSE IF DeclaresField(runtime.profile, serviceName, "debug_port")
    THEN Some(ResolveDeclared(runtime, serviceName, "debug_port"))
  ELSE DebugPortFromServicePort(resolveServicePort(runtime, serviceName))

\* Array.isArray(rawPorts) ? rawPorts.map((entry) => String(entry)) : []
PortsOf(serviceConfig) == IF Has(serviceConfig, "ports") THEN serviceConfig["ports"] ELSE <<>>

\* ports.some((entry) => entry.includes(':9229'))
hasDebugPort(ports) == \E i \in 1..Len(ports) : HasSubstring(ports[i], ":9229")

\* Lines 338-345: debugPort is what resolveServiceDebugPort returned.
WithDebugPort(serviceConfig, ports, debugPort) ==
  IF IsSet(debugPort) /\ debugPort[1] # ""
    THEN Put(serviceConfig, "ports", Append(ports, debugPort[1] \o ":9229"))
  ELSE Put(serviceConfig, "ports", ports)

\* The body of the loop over runtime.enabledServices (lines 325-345) for a
\* service the manifest has.
EnsureServiceDebugPort(serviceConfig, runtime, serviceName) ==
  IF ~IsObject(serviceConfig) THEN serviceConfig
  ELSE IF hasDebugPort(PortsOf(serviceConfig))
    THEN Put(serviceConfig, "ports", PortsOf(serviceConfig))
  ELSE WithDebugPort(serviceConfig, PortsOf(serviceConfig),
                     resolveServiceDebugPort(runtime, serviceName))

\* Lines 322-348 on the service map of the manifest.
EnsureDebugPorts(compose, services, runtime) ==
  Put(compose, "services",
      [n \in DOMAIN services |->
         IF n \in Range(runtime.enabledServices)
           THEN EnsureServiceDebugPort(services[n], runtime, n)
           ELSE services[n]])

\* ensureComposeDebugPorts: the manifest as the call leaves it.
ensureComposeDebugPorts(compose, runtime) ==
  EnsureDebugPorts(compose, ServicesOf(compose), runtime)

(***************************************************************************)
(* generator.ts: writeGeneratedCompose and resolveNginxRoutes              *)
(***************************************************************************)

\* Lines 724-734: the first of the candidate files that has contents.  A
\* file is <<>> when it is missing or blank, <<manifest>> otherwise, the
\* manifest being what YAML.parse makes of its text.
RECURSIVE FirstTemplate(_, _)
FirstTemplate(templateCandidates, i) ==
  IF i > Len(templateCandidates) THEN <<>>
  ELSE IF templateCandidates[i] # <<>> THEN templateCandidates[i]
  ELSE FirstTemplate(templateCandidates, i + 1)

\* interpolate on the text of a dependency declaration.
RenderDependsOn(dependsOn, interpolationContext) ==
  IF Has(dependsOn, "list")
    THEN DependsList([i \in 1..Len(dependsOn["list"]) |->
                        interpolate(dependsOn["list"][i], interpolationContext)])
  ELSE DependsMap([n \in DOMAIN dependsOn["map"] |->
                     interpolate(dependsOn["map"][n], interpolationContext)])

\* interpolate on the text of a port list.
RenderPorts(ports, interpolationContext) ==
  [i \in 1..Len(ports) |-> interpolate(ports[i], interpolationContext)]

\* interpolate on the text of a service definition.
RenderDefinition(serviceConfig, interpolationContext) ==
  IF ~IsObject(serviceConfig) THEN serviceConfig
  ELSE [k \in DOMAIN serviceConfig |->
          IF k = "depends_on" THEN RenderDependsOn(serviceConfig[k], interpolationContext)
          ELSE IF k = "ports" THEN RenderPorts(serviceConfig[k], interpolationContext)
          ELSE interpolate(serviceConfig[k], interpolationContext)]

\* Lines 750-751: YAML.parse(interpolate(template, interpolationContext)).
\* The placeholders of a template stand in its scalar values, so that the
\* parsed result is the template's structure with every value interpolated.
RenderManifest(template, interpolationContext) ==
  [k \in DOMAIN template |->
     IF k = "services"
       THEN [n \in DOMAIN template[k] |->
               RenderDefinition(template[k][n], interpolationContext)]
       ELSE interpolate(template[k], interpolationContext)]

\* `${dbKey}-postgresql`
BackendName(dbKey) == dbKey \o "-postgresql"

\* !db || !db.useLocal
BackendDisabled(runtime, dbKey) ==
  dbKey \notin DOMAIN runtime.dbConfigs \/ ~runtime.dbConfigs[dbKey].useLocal

\* A loop that disables the backend of every database service.
DisabledBackendsAll(runtime) ==
  {BackendName(getDbKey(e[1], e[2])) :
     e \in {x \in Range(EntriesOf(runtime.profile, "services")) :
              isDatabaseService(x[1], x[2])}}

\* Lines 760-767: the names added for the database services.
DisabledBackends(runtime) ==
  {BackendName(getDbKey(e[1], e[2])) :
     e \in {x \in Range(EntriesOf(runtime.profile, "services")) :
              /\ isDatabaseService(x[1], x[2])
              /\ BackendDisabled(runtime, getDbKey(x[1], x[2]))}}

\* A loop that also disables every database service under its own name.
DisabledApplicationsAndDatabases(runtime) ==
  {e[1] :
     e \in {x \in Range(EntriesOf(runtime.profile, "services")) :
              \/ isDatabaseService(x[1], x[2])
              \/ ~DeclaredEnabled(x[2])
              \/ x[1] \notin Range(runtime.enabledServices)}}

\* Lines 769-775: the names added for the other services.
DisabledApplications(runtime) ==
  {e[1] :
     e \in {x \in Range(EntriesOf(runtime.profile, "services")) :
              /\ ~isDatabaseService(x[1], x[2])
              /\ \/ ~DeclaredEnabled(x[2])
                 \/ x[1] \notin Range(runtime.enabledServices)}}

\* disabledServices after the loop of lines 756-776.
DisabledServices(runtime) == DisabledBackends(runtime) \cup DisabledApplications(runtime)

\* Lines 746-779: the manifest written, template being the parsed text of
\* the template file.
PrunedManifest(runtime, template) ==
  ensureComposeDebugPorts(
    pruneCompose(RenderManifest(template, Merge(runtime.sourceContext, runtime.generatedContext)),
                 DisabledServices(runtime)).compose,
    runtime)

\* writeGeneratedCompose: <<>> when no candidate has contents (the call
\* throws, line 737), else <<the manifest written>>.
writeGeneratedCompose(runtime, templateCandidates) ==
  IF FirstTemplate(templateCandidates, 1) = <<>> THEN <<>>
  ELSE <<PrunedManifest(runtime, FirstTemplate(templateCandidates, 1)[1])>>

\* A normalization that adds the leading slash only.
WithLeadingSlashOnly(value) ==
  IF value = "" THEN "/"
  ELSE (IF StartsWith(value, "/") THEN "" ELSE "/") \o value

\* normalizeRoutePath on a trimmed value.
WithSlashes(value) ==
  IF value = "" THEN "/"
  ELSE (IF StartsWith(value, "/") THEN "" ELSE "/") \o value \o
       (IF EndsWith((IF StartsWith(value, "/") THEN "" ELSE "/") \o value, "/") THEN "" ELSE "/")

\* normalizeRoutePath
normalizeRoutePath(input) == WithSlashes(Trim(input))

\* runtime.profile.nginx?.routes ?? []
ConfiguredOf(profile) ==
  IF Has(profile, "nginx") /\ Has(profile["nginx"], "routes") THEN profile["nginx"]["routes"]
  ELSE <<>>

\* `${route.service}::${route.path}`
RouteKey(route) == route.service \o "::" \o route.path

\* Lines 480-495, from the i-th configured route on.
RECURSIVE ConfiguredRoutes(_, _, _)
ConfiguredRoutes(runtime, configured, i) ==
  IF i > Len(configured) THEN <<>>
  ELSE IF ~Truthy(configured[i], "service") \/ ~Truthy(configured[i], "path")
    THEN ConfiguredRoutes(runtime, configured, i + 1)
  ELSE IF configured[i]["service"] \notin Range(runtime.enabledServices)
    THEN ConfiguredRoutes(runtime, configured, i + 1)
  ELSE <<[service |-> configured[i]["service"],
          path |-> normalizeRoutePath(configured[i]["path"]),
          stripPrefix |-> ~(Has(configured[i], "strip_prefix")
                            /\ configured[i]["strip_prefix"] = FALSE)]>>
       \o ConfiguredRoutes(runtime, configured, i + 1)

\* Lines 498-517: the default routes of one service.
ServiceDefaultRoutes(serviceName) ==
  <<[service |-> serviceName, path |-> normalizeRoutePath(serviceName), stripPrefix |-> TRUE]>>
  \o (IF serviceName = "api-auth"
        THEN <<[service |-> serviceName, path |-> "/login/", stripPrefix |-> FALSE],
               [service |-> serviceName, path |-> "/user/", stripPrefix |-> FALSE]>>
        ELSE <<>>)

\* runtime.enabledServices.flatMap(...), from the i-th service on.
RECURSIVE DefaultRoutes(_, _)
DefaultRoutes(enabledServices, i) ==
  IF i > Len(enabledServices) THEN <<>>
  ELSE ServiceDefaultRoutes(enabledServices[i]) \o DefaultRoutes(enabledServices, i + 1)

\* A map in which the first route set under a key stays.
MapSetKeepFirst(unique, route) ==
  IF \E j \in 1..Len(unique) : RouteKey(unique[j]) = RouteKey(route)
    THEN unique
  ELSE Append(unique, route)

\* unique.set(key, route) on a Map held as the list of its values in
\* insertion order: a key that is there keeps its place and gets the new
\* value.
MapSet(unique, route) ==
  IF \E j \in 1..Len(unique) : RouteKey(unique[j]) = RouteKey(route)
    THEN [j \in 1..Len(unique) |->
            IF RouteKey(unique[j]) = RouteKey(route) THEN route ELSE unique[j]]
  ELSE Append(unique, route)

\* Lines 521-526: the routes set one after the other.
RECURSIVE SetAll(_, _, _)
SetAll(unique, routes, i) ==
  IF i > Len(routes) THEN unique
  ELSE SetAll(MapSet(unique, routes[i]), routes, i + 1)

\* resolveNginxRoutes
resolveNginxRoutes(runtime) ==
  SetAll(SetAll(<<>>, DefaultRoutes(runtime.enabledServices, 1), 1),
         ConfiguredRoutes(runtime, ConfiguredOf(runtime.profile), 1), 1)

(***************************************************************************)
(***************************************************************************)
(* generator.ts: location blocks, snippets and the proxy configuration     *)
(***************************************************************************)

\* The position of the k-th line end of a text, 0 for k = 0 and one past
\* the text for the one after the last.
NthLineEnd(text, ends, k) ==
  IF k = 0 THEN 0
  ELSE IF k > Cardinality(ends) THEN Len(text) + 1
  ELSE CHOOSE p \in ends : Cardinality({q \in ends : q <= p}) = k

\* raw.split('\n'), ends being the positions of the line ends.
SplitAt(text, ends) ==
  [k \in 1..(Cardinality(ends) + 1) |->
     SubSeq(text, NthLineEnd(text, ends, k - 1) + 1, NthLineEnd(text, ends, k) - 1)]

\* raw.split('\n')
SplitLines(text) == SplitAt(text, LineEnds(text))

\* blocks.join(separator)
RECURSIVE JoinWith(_, _)
JoinWith(parts, separator) ==
  IF parts = <<>> THEN ""
  ELSE IF Len(parts) = 1 THEN parts[1]
  ELSE parts[1] \o separator \o JoinWith(Tail(parts), separator)

\* countBraces: the opening braces of a line minus its closing ones.
countBraces(line) ==
  Cardinality({i \in 1..Len(line) : Ch(line, i) = "{"})
    - Cardinality({i \in 1..Len(line) : Ch(line, i) = "}"})

\* /^\s*location\b/.test(line): after the leading blanks comes the word
\* location, and no word character follows it.
IsLocationLine(line) ==
  /\ StartsWith(TrimStart(line), "location")
  /\ Ch(TrimStart(line), 9) \notin NameChars

\* The inner loop of extractLocationBlocks: the index of the first line
\* that is not taken into the block.
RECURSIVE BlockEnd(_, _, _)
BlockEnd(lines, index, depth) ==
  IF index <= Len(lines) /\ depth > 0
    THEN BlockEnd(lines, index + 1, depth + countBraces(lines[index]))
    ELSE index

RECURSIVE ScanBlocks(_, _)

\* blocks.push(blockLines.join('\n').trim()) for the lines index..stop - 1,
\* and the scan goes on at stop.
TakeBlock(lines, index, stop) ==
  <<Trim(JoinWith(SubSeq(lines, index, stop - 1), "\n"))>> \o ScanBlocks(lines, stop)

\* The outer loop of extractLocationBlocks from the line index on.
ScanBlocks(lines, index) ==
  IF index > Len(lines) THEN <<>>
  ELSE IF ~IsLocationLine(lines[index]) THEN ScanBlocks(lines, index + 1)
  ELSE TakeBlock(lines, index, BlockEnd(lines, index + 1, countBraces(lines[index])))

\* extractLocationBlocks
extractLocationBlocks(raw) ==
  SelectSeq(ScanBlocks(SplitLines(raw), 1), LAMBDA block : block # "")

\* The index of the last character of the run of characters of a class
\* that starts at i (i - 1 when there is none).
RECURSIVE RunEnd(_, _, _)
RunEnd(text, i, class) ==
  IF Ch(text, i) \in class THEN RunEnd(text, i + 1, class) ELSE i - 1

\* (?::\d+)?; at position i: the index of the ";" that ends the match, 0
\* when there is no match.
PortAndSemicolonEnd(text, i, digitsEnd) ==
  IF Ch(text, i) = ";" THEN i
  ELSE IF Ch(text, i) = ":" /\ digitsEnd >= i + 1 /\ Ch(text, digitsEnd + 1) = ";"
    THEN digitsEnd + 1
  ELSE 0

\* proxy_pass\s+http:\/\/ at position i, blanksEnd being the end of the run
\* of blanks behind proxy_pass: the index of the last "/", 0 for no match.
ProxyPassSchemeEnd(text, i, blanksEnd) ==
  IF /\ Slice(text, i, i + 9) = "proxy_pass"
     /\ blanksEnd >= i + 10
     /\ Slice(text, blanksEnd + 1, blanksEnd + 7) = "http://"
    THEN blanksEnd + 7
    ELSE 0

\* proxy_pass\s+http:\/\/(?:127\.0\.0\.1|localhost)(?::\d+)?; with the
\* scheme ending at schemeEnd: the index of the last character of the
\* match, 0 for no match.
LocalTargetEnd(text, schemeEnd) ==
  IF schemeEnd > 0 /\ Slice(text, schemeEnd + 1, schemeEnd + 9) \in {"127.0.0.1", "localhost"}
    THEN PortAndSemicolonEnd(text, schemeEnd + 10, RunEnd(text, schemeEnd + 11, Digits))
    ELSE 0

\* proxy_pass\s+http:\/\/authorizer[^;]*; with the scheme ending at
\* schemeEnd: the index of the first ";" behind authorizer, 0 for no match.
AuthorizerTargetEnd(text, schemeEnd) ==
  IF schemeEnd > 0 /\ Slice(text, schemeEnd + 1, schemeEnd + 10) = "authorizer"
    THEN FirstOf({j \in (schemeEnd + 11)..Len(text) : Ch(text, j) = ";"})
    ELSE 0

\* Where the first pattern matches at position i ends, 0 for no match.
LocalProxyPassEnd(text, i) ==
  LocalTargetEnd(text, ProxyPassSchemeEnd(text, i, RunEnd(text, i + 10, WhiteSpace)))

\* Where the second pattern matches at position i ends, 0 for no match.
AuthorizerProxyPassEnd(text, i) ==
  AuthorizerTargetEnd(text, ProxyPassSchemeEnd(text, i, RunEnd(text, i + 10, WhiteSpace)))

\* text.replace(/pattern/g, replacement) from position from on, matchEnds
\* giving for every position where the pattern matches the end of the
\* match: the leftmost match is replaced and the scan goes on behind it.
RECURSIVE ReplaceMatches(_, _, _, _)

ReplaceMatchAt(text, from, matchEnds, replacement, start) ==
  IF start = 0 THEN SubSeq(text, from, Len(text))
  ELSE SubSeq(text, from, start - 1) \o replacement
         \o ReplaceMatches(text, matchEnds[start] + 1, matchEnds, replacement)

ReplaceMatches(text, from, matchEnds, replacement) ==
  ReplaceMatchAt(text, from, matchEnds, replacement,
                 FirstOf({i \in DOMAIN matchEnds : i >= from}))

\* The first replace of normalizeSnippetContent.
ReplaceLocalProxyPass(text, replacement) ==
  ReplaceMatches(text, 1,
                 [i \in {j \in 1..Len(text) : LocalProxyPassEnd(text, j) > 0} |->
                    LocalProxyPassEnd(text, i)],
                 replacement)

\* The second replace of normalizeSnippetContent.
ReplaceAuthorizerProxyPass(text, replacement) ==
  ReplaceMatches(text, 1,
                 [i \in {j \in 1..Len(text) : AuthorizerProxyPassEnd(text, j) > 0} |->
                    AuthorizerProxyPassEnd(text, i)],
                 replacement)

\* extractedBlocks.length > 0 ? extractedBlocks.join('\n\n') : raw.trim()
SnippetSource(raw, extractedBlocks) ==
  IF Len(extractedBlocks) > 0 THEN JoinWith(extractedBlocks, "\n\n") ELSE Trim(raw)

\* normalizeSnippetContent
normalizeSnippetContent(raw, route, runtime) ==
  ReplaceAuthorizerProxyPass(
    ReplaceLocalProxyPass(
      SnippetSource(raw, extractLocationBlocks(raw)),
      "proxy_pass http://" \o route.service \o ":"
        \o resolveServicePort(runtime, route.service) \o ";"),
    "proxy_pass http://authorizer:" \o resolveServicePort(runtime, "authorizer") \o ";")

\* lines.map((line) => line.trim())
TrimEach(lines) == [k \in DOMAIN lines |-> Trim(lines[k])]

\* raw.split('\n').map((line) => line.trim()).filter((line) => line.length > 0)
TrimmedLines(raw) == SelectSeq(TrimEach(SplitLines(raw)), LAMBDA line : line # "")

\* '  '.repeat(n)
RECURSIVE Indent(_)
Indent(n) == IF n <= 0 THEN "" ELSE "  " \o Indent(n - 1)

\* Math.max(n, 0)
AtLeastZero(n) == IF n < 0 THEN 0 ELSE n

\* The loop of formatNginxLocationBlock from the line i on, depth being the
\* depth the lines before it left: a line that starts with a closing brace
\* is indented one level less.
RECURSIVE FormatLines(_, _, _)
FormatLines(lines, i, depth) ==
  IF i > Len(lines) THEN <<>>
  ELSE <<Indent(1 + AtLeastZero(depth - (IF StartsWith(lines[i], "}") THEN 1 ELSE 0)))
           \o lines[i]>>
         \o FormatLines(lines, i + 1, AtLeastZero(depth + countBraces(lines[i])))

\* formatNginxLocationBlock(raw), baseIndentLevel being 1.
formatNginxLocationBlock(raw) == JoinWith(FormatLines(TrimmedLines(raw), 1, 0), "\n")

\* value.replace(/\s+/g, ' ') from the character i on.
RECURSIVE CollapseBlanks(_, _)
CollapseBlanks(value, i) ==
  IF i > Len(value) THEN ""
  ELSE IF Ch(value, i) \in WhiteSpace
    THEN " " \o CollapseBlanks(value, RunEnd(value, i, WhiteSpace) + 1)
  ELSE Ch(value, i) \o CollapseBlanks(value, i + 1)

\* What ([^\n{]+) captures when /^\s*location\s+([^\n{]+)\{/m matches at
\* the start of the line i, <<>> when it does not match there.  line is
\* the line without its leading blanks, rest what follows the word
\* location, brace the position of the first "{" of rest and nextBrace that
\* of the first "{" of the next line (0 when there is none).  Either the
\* word is followed by a blank and at least one more character before the
\* brace, or the line ends behind the word and \s+ takes the line end, so
\* that the target is the next line up to its brace.
HeaderTarget(lines, i, line, rest, brace, nextBrace) ==
  IF ~StartsWith(line, "location") THEN <<>>
  ELSE IF rest # "" /\ RunEnd(rest, 1, WhiteSpace) < Len(rest)
    THEN IF Ch(rest, 1) \in WhiteSpace /\ brace >= 3 THEN <<Slice(rest, 1, brace - 1)>>
         ELSE <<>>
  ELSE IF i < Len(lines) /\ nextBrace >= 2 THEN <<Slice(lines[i + 1], 1, nextBrace - 1)>>
  ELSE <<>>

\* The first "{" of a text, 0 when it has none.
FirstBrace(text) == FirstOf({p \in 1..Len(text) : Ch(text, p) = "{"})

\* HeaderTarget for the line i of lines.
HeaderTargetAt(lines, i) ==
  HeaderTarget(lines, i, TrimStart(lines[i]),
               Slice(TrimStart(lines[i]), 9, Len(lines[i])),
               FirstBrace(Slice(TrimStart(lines[i]), 9, Len(lines[i]))),
               IF i < Len(lines) THEN FirstBrace(lines[i + 1]) ELSE 0)

\* `location ${locationTarget} {` for the first line at which the pattern
\* matches, None when it matches nowhere.
HeaderOfFirstMatch(lines, i) ==
  IF i = 0 THEN None
  ELSE Some("location " \o Trim(CollapseBlanks(HeaderTargetAt(lines, i)[1], 1)) \o " {")

\* The header of the first line of lines at which the pattern matches.
HeaderIn(lines) ==
  HeaderOfFirstMatch(lines, FirstOf({i \in DOMAIN lines : HeaderTargetAt(lines, i) # <<>>}))

\* extractLocationHeader, for a text without empty lines (it is applied to
\* what formatNginxLocationBlock returns).
extractLocationHeader(block) == HeaderIn(SplitLines(block))

\* The characters escapeRegex puts a backslash before.
RegexSpecials == {".", "*", "+", "?", "^", "$", "{", "}", "(", ")", "|", "[", "]", "\\"}

\* escapeRegex from the character i on.
RECURSIVE EscapeFrom(_, _)
EscapeFrom(value, i) ==
  IF i > Len(value) THEN ""
  ELSE (IF Ch(value, i) \in RegexSpecials THEN "\\" ELSE "") \o Ch(value, i)
         \o EscapeFrom(value, i + 1)

\* escapeRegex
escapeRegex(value) == EscapeFrom(value, 1)

\* pathValue.endsWith('/') ? pathValue.slice(0, -1) : pathValue, or '/'
\* when that is empty.
RewriteBase(pathValue) ==
  IF EndsWith(pathValue, "/")
    THEN (IF Len(pathValue) = 1 THEN "/" ELSE SubSeq(pathValue, 1, Len(pathValue) - 1))
  ELSE IF pathValue = "" THEN "/"
  ELSE pathValue

\* buildRewriteRegex
buildRewriteRegex(pathValue) == "^" \o escapeRegex(RewriteBase(pathValue)) \o "/?(.*)$"

\* rewriteLine, as a list of lines: none when the prefix is kept.
RewriteLines(route) ==
  IF route.stripPrefix
    THEN <<"rewrite " \o buildRewriteRegex(route.path) \o " /$1 break;">>
    ELSE <<>>

\* The lines of the default block of a route, port being the service port.
DefaultBlockLines(route, port) ==
  <<"location " \o route.path \o " {">>
  \o (IF route.service = "authorizer"
        THEN <<"proxy_pass_request_headers on;",
               "proxy_set_header Host             $host;",
               "proxy_set_header X-Real-IP        $remote_addr;",
               "proxy_set_header X-Real-URI       $request_uri;",
               "proxy_set_header X-Real-Method    $request_method;",
               "proxy_set_header X-Real-Host      $host;",
               "proxy_set_header X-Forwarded-For  $proxy_add_x_forwarded_for;",
               "proxy_set_header X-Forwarded-Proto $forwarded_proto;">>
        ELSE <<"proxy_set_header Host             $host;",
               "proxy_set_header X-Forwarded-For  $proxy_add_x_forwarded_for;",
               "proxy_set_header X-Forwarded-Proto $forwarded_proto;">>)
  \o RewriteLines(route)
  \o <<"proxy_pass http://" \o route.service \o ":" \o port \o ";", "}">>

\* buildDefaultNginxLocationBlock
buildDefaultNginxLocationBlock(route, runtime) ==
  formatNginxLocationBlock(
    JoinWith(DefaultBlockLines(route, resolveServicePort(runtime, route.service)), "\n"))

\* readText(filePath): '' for a file that does not exist.
readText(files, filePath) == IF filePath \in DOMAIN files THEN files[filePath] ELSE ""

\* The candidates of resolveNginxSnippetPath, in their order.
SnippetCandidates(serviceName) ==
  <<"temp/nginx/" \o ProfileName \o "/" \o serviceName \o ".conf",
    "temp/nginx/" \o ProfileName \o "/" \o serviceName \o "-nginx.conf",
    "temp/nginx/" \o serviceName \o ".conf",
    "temp/nginx/" \o serviceName \o "-nginx.conf",
    "temp/" \o serviceName \o "-nginx.conf">>

\* The first candidate from the i-th on that exists and is not blank,
\* <<>> (null) when there is none.
RECURSIVE FirstSnippet(_, _, _)
FirstSnippet(files, candidates, i) ==
  IF i > Len(candidates) THEN <<>>
  ELSE IF candidates[i] \in DOMAIN files /\ Trim(readText(files, candidates[i])) # ""
    THEN <<candidates[i]>>
  ELSE FirstSnippet(files, candidates, i + 1)

\* resolveNginxSnippetPath
resolveNginxSnippetPath(files, serviceName) ==
  FirstSnippet(files, SnippetCandidates(serviceName), 1)

\* pushBlock without the set of seen headers: every block that is not blank
\* is appended.
PushFormattedEveryBlock(st, formatted, header) ==
  IF Trim(formatted) = "" THEN st
  ELSE [st EXCEPT !.blocks = Append(@, formatted)]

\* pushBlock with the block already formatted: a blank block is dropped, a
\* block whose header was seen is dropped, any other is appended and its
\* header, if it has one, is remembered.
PushFormatted(st, formatted, header) ==
  IF Trim(formatted) = "" THEN st
  ELSE IF IsSet(header) /\ header[1] \in st.seenLocationHeaders THEN st
  ELSE [st EXCEPT !.blocks = Append(@, formatted),
                  !.seenLocationHeaders = IF IsSet(header) THEN @ \cup {header[1]} ELSE @]

\* The header of a formatted block.
PushWithHeader(st, formatted) ==
  PushFormatted(st, formatted, extractLocationHeader(formatted))

\* pushBlock
pushBlock(st, block) == PushWithHeader(st, formatNginxLocationBlock(block))

\* for (const block of extracted) pushBlock(block), from the i-th on.
RECURSIVE PushAll(_, _, _)
PushAll(st, extracted, i) ==
  IF i > Len(extracted) THEN st
  ELSE PushAll(pushBlock(st, extracted[i]), extracted, i + 1)

\* The context a snippet is interpolated with.
SnippetContext(runtime, route) ==
  Merge(Merge(runtime.sourceContext, runtime.generatedContext),
        [k \in {"SERVICE_NAME", "SERVICE_PORT", "SERVICE_PATH"} |->
           CASE k = "SERVICE_NAME" -> route.service
             [] k = "SERVICE_PORT" -> resolveServicePort(runtime, route.service)
             [] k = "SERVICE_PATH" -> route.path])

\* Lines 649-656: the blocks of the interpolated snippet are pushed, or the
\* whole of it when it has none.
PushSnippet(st, interpolated, extracted) ==
  IF Len(extracted) > 0 THEN PushAll(st, extracted, 1) ELSE pushBlock(st, interpolated)

\* PushSnippet for the interpolated text.
PushInterpolated(st, interpolated) ==
  PushSnippet(st, interpolated, extractLocationBlocks(interpolated))

\* Lines 637-657: the snippet of a service is handled once.
HandleSnippet(st, runtime, files, route, snippetPath) ==
  IF route.service \in st.handledServiceSnippets THEN st
  ELSE PushInterpolated(
         [st EXCEPT !.handledServiceSnippets = @ \cup {route.service}],
         interpolate(normalizeSnippetContent(Trim(readText(files, snippetPath)), route, runtime),
                     SnippetContext(runtime, route)))

\* Lines 659-662: a route of a service with a snippet gets a default block
\* unless it is the route at the service's own path.
DefaultBlockOffOwnPath(st, runtime, route) ==
  IF route.path # normalizeRoutePath(route.service)
    THEN pushBlock(st, buildDefaultNginxLocationBlock(route, runtime))
    ELSE st

\* The body of the loop over the routes, snippetPath being what
\* resolveNginxSnippetPath found for the route's service.
RouteStep(st, runtime, files, route, snippetPath) ==
  IF snippetPath = <<>>
    THEN pushBlock(st, buildDefaultNginxLocationBlock(route, runtime))
    ELSE DefaultBlockOffOwnPath(HandleSnippet(st, runtime, files, route, snippetPath[1]),
                                runtime, route)

\* The loop over the routes from the i-th on.
RECURSIVE RoutesLoop(_, _, _, _, _)
RoutesLoop(st, runtime, files, routes, i) ==
  IF i > Len(routes) THEN st
  ELSE RoutesLoop(RouteStep(st, runtime, files, routes[i],
                            resolveNginxSnippetPath(files, routes[i].service)),
                  runtime, files, routes, i + 1)

\* buildNginxServiceLocations
buildNginxServiceLocations(runtime, files) ==
  JoinWith(RoutesLoop([blocks |-> <<>>, handledServiceSnippets |-> {},
                       seenLocationHeaders |-> {}],
                      runtime, files, resolveNginxRoutes(runtime), 1).blocks,
           "\n\n")

\* writeGeneratedNginx: the contents of nginx.conf, <<>> when it throws
\* because the template is missing or blank.
writeGeneratedNginx(runtime, template, files) ==
  IF Trim(template) = "" THEN <<>>
  ELSE <<interpolate(template,
                     Merge(Merge(runtime.sourceContext, runtime.generatedContext),
                           [k \in {"NGINX_SERVICE_LOCATIONS"} |->
                              buildNginxServiceLocations(runtime, files)]))>>

(* Harness that applies interpolate to bounded templates and contexts      *)
(***************************************************************************)

\* Longest template, in segments.
MaxSegs == 2

\* Literal text between placeholders: none of it opens a placeholder.
LiteralTexts == {"x", "$", "}", "a:-b", "$$ "}

LiteralSegs == {[kind |-> "lit", text |-> s, name |-> "", hasDefault |-> FALSE]
                  : s \in LiteralTexts}

\* ${NAME} and ${NAME:-default}; a default holds no "}".
PlaceholderSegs ==
  {[kind |-> "ph", text |-> "", name |-> n, hasDefault |-> FALSE]
     : n \in {"A", "B", "U_1", "constructor"}}
  \cup
  {[kind |-> "ph", text |-> d, name |-> n, hasDefault |-> TRUE]
     : n \in {"A", "U_1"}, d \in {"", "dflt", "${B"}}

Segs == LiteralSegs \cup PlaceholderSegs

SegText(seg) ==
  IF seg.kind = "lit" THEN seg.text
  ELSE IF seg.hasDefault THEN "${" \o seg.name \o ":-" \o seg.text \o "}"
  ELSE "${" \o seg.name \o "}"

RECURSIVE Render(_)
Render(segs) ==
  IF segs = <<>> THEN "" ELSE SegText(Head(segs)) \o Render(Tail(segs))

\* Contexts: A may hold placeholder text, B may be empty, U_1 is never set.
Contexts ==
  { EmptyObj,
    [k \in {"A", "B"} |-> IF k = "A" THEN "${B}" ELSE "vb"],
    [k \in {"A", "B"} |-> IF k = "A" THEN "va" ELSE ""],
    [k \in {"A", "B"} |-> IF k = "A" THEN "p${B:-q}" ELSE "vb"] }

SegSeqs == UNION {[1..n -> Segs] : n \in 0..MaxSegs}

\* The compose harness's state while something else runs.
ComposeHarnessIdle ==
  /\ hsource = EmptyObj
  /\ hgiven = EmptyObj
  /\ hremove = {}
  /\ hruntime = EmptyObj
  /\ hpruned = <<>>
  /\ hported = <<>>
  /\ hstage = "idle"

\* The snippet harness's state while something else runs.
SnippetHarnessIdle ==
  /\ nraw = ""
  /\ nroute = EmptyObj
  /\ nruntime = EmptyObj
  /\ nblocks = <<>>
  /\ nnormalized = ""
  /\ nstage = "idle"

\* A workspace without manifest files in which nothing has run.
NoManifests ==
  /\ rootCompose = <<>>
  /\ legacyCompose = <<>>
  /\ composeFile = <<>>
  /\ runKind = "none"
  /\ runTemplates = <<>>

\* A workspace without proxy template, snippets and proxy configuration.
NoProxyFiles ==
  /\ nginxTemplate = ""
  /\ snippetFiles = EmptyObj
  /\ nginxFile = <<>>

\* The compiler's state while only a harness runs.
CompilerIdle ==
  /\ profileFile = EmptyObj
  /\ profileOnDisk = "absent"
  /\ procEnv = EmptyObj
  /\ fsDirs = {}
  /\ repoEnvs = EmptyObj
  /\ svcDir = EmptyObj
  /\ stackFile = <<>>
  /\ lastRuntime = <<>>
  /\ runDirs = {}
  /\ NoManifests
  /\ NoProxyFiles

InitInterp ==
  /\ tsegs \in SegSeqs
  /\ tctx \in Contexts
  /\ tout = ""
  /\ tdone = FALSE
  /\ CompilerIdle
  /\ ComposeHarnessIdle
  /\ SnippetHarnessIdle

\* interpolate(template, context) is called.
Interpolate ==
  /\ ~tdone
  /\ tout' = interpolate(Render(tsegs), tctx)
  /\ tdone' = TRUE
  /\ UNCHANGED <<tsegs, tctx>>
  /\ UNCHANGED gvars
  /\ UNCHANGED hvars
  /\ UNCHANGED nvars

NextInterp == Interpolate

SpecInterp == InitInterp /\ [][NextInterp]_vars

(***************************************************************************)
(* The profile compiler run again and again on one workspace               *)
(***************************************************************************)

\* Most services a profile declares.
MaxServices == 3

\* The services a profile may declare, in the order it declares them.
\* Application services: api-auth, authorizer and api-security are bound to
\* a database by SERVICE_DB_MAP; web is declared disabled; the name of "7"
\* is an array index.
\* Database services: by name, by type, by kind and by db_key; two with the
\* key "security" and two with the key "auth"; local or not; with an explicit
\* host, a host that may resolve to nothing, or none; complete or not.
ServicePool ==
  << <<"api-auth", [port |-> "4000",
                    env |-> << <<"FOO", "own-${X}">>, <<"LOG_LEVEL", "${LVL}">> >>]>>,
     <<"db-security", [use_local |-> TRUE, user |-> "u", password |-> "p", name |-> "n"]>>,
     <<"authorizer", [command |-> "node authorizer.js ${X}"]>>,
     <<"vault", [type |-> "db", db_key |-> " Security ", host |-> "${DB_HOST}",
                 user |-> "u2", name |-> "n2", port |-> "6543"]>>,
     <<"api-security", [repo |-> "services/sec",
                        env |-> << <<"SECURITY_DB_HOST", "replica">>,
                                   <<"DATABASE_URL", "preset://db">> >>]>>,
     <<"auth-postgres", [use_local |-> FALSE, user |-> "u", password |-> "p", name |-> "n"]>>,
     <<"web", [enabled |-> FALSE, port |-> "${WEB_PORT:-8080}"]>>,
     <<"auth_store", [kind |-> "Database", db_key |-> "auth", host |-> "h",
                      user |-> "u", password |-> "p", name |-> "n"]>>,
     <<"7", [port |-> "7000"]>> >>

\* The pool entries picked by a set of positions, first to last.
RECURSIVE Ascending(_)
Ascending(picked) ==
  IF picked = {} THEN <<>>
  ELSE LET least == CHOOSE i \in picked : \A j \in picked : i <= j
       IN <<ServicePool[least]>> \o Ascending(picked \ {least})

\* The same entries, last to first.
RECURSIVE Descending(_)
Descending(picked) ==
  IF picked = {} THEN <<>>
  ELSE LET most == CHOOSE i \in picked : \A j \in picked : i >= j
       IN <<ServicePool[most]>> \o Descending(picked \ {most})

\* The service tables: at most MaxServices pool entries, in pool order or
\* in the reverse order (a YAML mapping has no duplicate keys).
ServiceLists ==
  UNION {{Ascending(picked), Descending(picked)} :
           picked \in {q \in SUBSET (1..Len(ServicePool)) : Cardinality(q) <= MaxServices}}

\* profile.vars and profile.common_env.
VarsMenu == { << <<"X", "pv">> >> }

CommonEnvMenu ==
  { <<>>,
    << <<"FOO", "shared">>, <<"LOG_LEVEL", "info">>,
       <<"AUTH_DB_HOST", "shared-h">>, <<"SECURITY_DB_HOST", "shared-s">>,
       <<"REPORTS_DATABASE_URL", "shared://reports">> >> }

Profiles ==
  {[vars |-> v, common_env |-> c, services |-> l] :
     v \in VarsMenu, c \in CommonEnvMenu, l \in ServiceLists}

\* process.env
ProcEnvs ==
  { EmptyObj,
    [k \in {"X", "DB_HOST", "LVL"} |->
       CASE k = "X" -> "ev" [] k = "DB_HOST" -> "eh" [] k = "LVL" -> "debug"] }

\* The repository directories of the application services a profile declares.
RepoPaths(p) ==
  {ServiceRepoPath(e[1], e[2]) :
     e \in {x \in Range(EntriesOf(p, "services")) : ~isDatabaseService(x[1], x[2])}}

\* Those of the services it declares enabled: the ones that come and go.
EnabledRepoPaths(p) ==
  {ServiceRepoPath(e[1], e[2]) :
     e \in {x \in Range(EntriesOf(p, "services")) :
              ~isDatabaseService(x[1], x[2]) /\ DeclaredEnabled(x[2])}}

\* The workspace before the first run: every declared repository is checked
\* out, and the generated services directory holds a stray .env file, the
\* file of a service that was enabled once, and a file that is no .env file.
InitCompiler ==
  /\ profileFile \in Profiles
  /\ profileOnDisk = "yaml"
  /\ procEnv \in ProcEnvs
  /\ fsDirs = RepoPaths(profileFile)
  /\ repoEnvs = EmptyObj
  /\ svcDir = [f \in {"legacy.env", "web.env", "notes.txt"} |-> "left behind\n"]
  /\ stackFile = <<>>
  /\ lastRuntime = <<>>
  /\ runDirs = {}
  /\ NoManifests
  /\ NoProxyFiles

\* The harness's state while the compiler runs.
HarnessIdle ==
  /\ tsegs = <<>>
  /\ tctx = EmptyObj
  /\ tout = ""
  /\ tdone = FALSE

Init == InitCompiler /\ HarnessIdle /\ ComposeHarnessIdle /\ SnippetHarnessIdle

\* loadProfileConfig: <<>> when resolveProfilePath throws because the file
\* is missing, else the profile; a file without a document parses to null
\* and gives {} (line 80).
loadProfileConfig(onDisk, parsed) ==
  IF onDisk = "absent" THEN <<>>
  ELSE IF onDisk = "empty" THEN <<EmptyObj>>
  ELSE <<parsed>>

\* `${serviceName}/.env.${runtime.stackEnv}` under repos (line 701).
ApplyTargetPath(runtime, serviceName) ==
  "repos/" \o serviceName \o "/.env." \o runtime.stackEnv

\* The apply branch of writeGeneratedEnvs (lines 697-706) on the .env.<label>
\* files: the env file of every enabled service whose directory
\* repos/<name> exists is written there; the others are skipped with a
\* warning.
ApplyGeneratedEnvs(runtime, dirs, files) ==
  LET targets == {n \in Range(runtime.enabledServices) : ("repos/" \o n) \in dirs}
      written == {ApplyTargetPath(runtime, n) : n \in targets}
  IN [f \in (DOMAIN files) \cup written |->
        IF f \in written
          THEN LET n == CHOOSE m \in targets : ApplyTargetPath(runtime, m) = f
               IN serializeEnv(buildServiceEnv(n, ServiceConfigOf(runtime.profile, n), runtime))
        ELSE files[f]]

\* generateProfile({profile, envOnly: true, apply}): buildRuntimeConfig,
\* which throws when there is no profile file, then writeGeneratedEnvs and
\* writeGeneratedStackEnv (lines 836-842); with envOnly no compose manifest
\* and no proxy file is written.  runDirs remembers which directories
\* fs.existsSync found; lastRuntime is the runtime object as it is when
\* generateProfile returns.
EnvOnlyRun(apply) ==
  /\ IF loadProfileConfig(profileOnDisk, profileFile) = <<>>
       THEN /\ runKind' = "failed"
            /\ UNCHANGED <<lastRuntime, svcDir, stackFile, runDirs, repoEnvs>>
       ELSE \E runtime \in {buildRuntimeConfig(loadProfileConfig(profileOnDisk, profileFile)[1],
                                               procEnv, fsDirs)} :
              /\ lastRuntime' = <<RuntimeAfterWriters(runtime)>>
              /\ svcDir' = writeGeneratedEnvs(runtime, svcDir)
              /\ repoEnvs' = IF apply THEN ApplyGeneratedEnvs(runtime, fsDirs, repoEnvs)
                             ELSE repoEnvs
              /\ stackFile' = <<writeGeneratedStackEnv(runtime)>>
              /\ runDirs' = fsDirs
              /\ runKind' = IF apply THEN "apply" ELSE "env"
  /\ UNCHANGED <<profileFile, profileOnDisk, procEnv, fsDirs>>
  /\ UNCHANGED <<rootCompose, legacyCompose, composeFile, runTemplates>>
  /\ UNCHANGED pvars
  /\ UNCHANGED ivars
  /\ UNCHANGED nvars
  /\ UNCHANGED hvars

\* generateProfile({profile, envOnly: true, apply: false})
generateProfile == EnvOnlyRun(FALSE)

\* generateProfile({profile, envOnly: true, apply: true})
generateProfileApply == EnvOnlyRun(TRUE)

\* Between runs a service repository is checked out ...
CloneRepo ==
  \E d \in EnabledRepoPaths(profileFile) \ fsDirs :
    /\ fsDirs' = fsDirs \cup {d}
    /\ UNCHANGED <<profileFile, profileOnDisk, procEnv, repoEnvs>>
    /\ UNCHANGED <<svcDir, stackFile, lastRuntime, runDirs>>
    /\ UNCHANGED fvars
    /\ UNCHANGED pvars
    /\ UNCHANGED ivars
    /\ UNCHANGED nvars
    /\ UNCHANGED hvars

\* ... or removed, with the files in it.
RemoveRepo ==
  \E d \in EnabledRepoPaths(profileFile) \cap fsDirs :
    /\ fsDirs' = fsDirs \ {d}
    /\ repoEnvs' = [f \in {x \in DOMAIN repoEnvs : ~StartsWith(x, d \o "/")} |-> repoEnvs[f]]
    /\ UNCHANGED <<profileFile, profileOnDisk, procEnv>>
    /\ UNCHANGED <<svcDir, stackFile, lastRuntime, runDirs>>
    /\ UNCHANGED fvars
    /\ UNCHANGED pvars
    /\ UNCHANGED ivars
    /\ UNCHANGED nvars
    /\ UNCHANGED hvars

Next == generateProfile \/ CloneRepo \/ RemoveRepo

Spec == Init /\ [][Next]_vars

(***************************************************************************)
(* The profile compiler run in apply mode                                  *)
(***************************************************************************)

\* Most services a profile of an apply run declares.
MaxApplyServices == 2

\* The positions of the service pool these profiles draw from: api-auth,
\* api-security (whose repository path the profile overrides), web
\* (declared disabled) and "7".
ApplyPool == {1, 5, 7, 9}

ApplyProfiles ==
  {[vars |-> v, common_env |-> c, services |-> l] :
     v \in VarsMenu, c \in CommonEnvMenu,
     l \in UNION {{Ascending(picked), Descending(picked)} :
                    picked \in {q \in SUBSET ApplyPool : Cardinality(q) <= MaxApplyServices}}}

\* The workspace before the first run: every declared repository is checked
\* out; there may be a directory repos/api-security besides the one the
\* profile names for api-security.
InitApply ==
  /\ profileFile \in ApplyProfiles
  /\ profileOnDisk = "yaml"
  /\ procEnv \in ProcEnvs
  /\ fsDirs \in {RepoPaths(profileFile), RepoPaths(profileFile) \cup {"repos/api-security"}}
  /\ repoEnvs = EmptyObj
  /\ svcDir = EmptyObj
  /\ stackFile = <<>>
  /\ lastRuntime = <<>>
  /\ runDirs = {}
  /\ NoManifests
  /\ NoProxyFiles
  /\ HarnessIdle
  /\ ComposeHarnessIdle
  /\ SnippetHarnessIdle

NextApply == generateProfileApply \/ CloneRepo \/ RemoveRepo

SpecApply == InitApply /\ [][NextApply]_vars

(***************************************************************************)
(* Harness that applies pruneCompose and ensureComposeDebugPorts to        *)
(* bounded manifests                                                       *)
(***************************************************************************)

\* Most services a manifest of the harness declares.
MaxComposeServices == 3

\* The service names of the manifests.
ComposeNames == {"api-auth", "web", "auth-postgresql"}

\* Service definitions: null; no depends_on and no ports; depends_on as a
\* list or as a mapping; ports with or without a mapping to 9229; a port
\* published as 9229 on the host only.
ComposeDefinitions ==
  { NullService,
    [image |-> "node:20"],
    [depends_on |-> DependsList(<<"auth-postgresql", "web", "api-auth">>),
     ports |-> <<"4000:4000">>],
    [depends_on |-> DependsMap([n \in {"api-auth", "auth-postgresql"} |-> "service_started"]),
     ports |-> <<"8080:80", "9229:9229">>],
    [depends_on |-> DependsList(<<"web">>), ports |-> <<"127.0.0.1:9229:3000">>] }

\* The manifests: no services section, or at most MaxComposeServices
\* services.
ComposeManifests ==
  {[version |-> "3"]} \cup
  {[services |-> m] :
     m \in UNION {[names -> ComposeDefinitions] :
                    names \in {q \in SUBSET ComposeNames :
                                 Cardinality(q) <= MaxComposeServices}}}

\* The removal sets: names of the manifest or of no service at all.
RemovalSets == SUBSET {"api-auth", "auth-postgresql", "ghost"}

\* The profiles the harness builds a RuntimeConfig from: a port only and
\* neither port nor debug port; an explicit debug port and a port that is a
\* template; a debug port that resolves to nothing and a disabled service.
HarnessProfiles ==
  { [services |-> << <<"api-auth", [port |-> "4000"]>>, <<"web", [command |-> "npm start"]>> >>],
    [services |-> << <<"api-auth", [port |-> "4000", debug_port |-> "9300"]>>,
                     <<"web", [port |-> "${WEB_PORT:-8080}"]>> >>],
    [services |-> << <<"api-auth", [debug_port |-> "${DBG}"]>>,
                     <<"web", [enabled |-> FALSE, port |-> "8080"]>> >>] }

\* The harness's RuntimeConfigs: every declared repository is there.
HarnessRuntimes ==
  {buildRuntimeConfig(p, EmptyObj, {"repos/api-auth", "repos/web"}) : p \in HarnessProfiles}

InitCompose ==
  /\ hgiven \in ComposeManifests
  /\ hsource = hgiven
  /\ hremove \in RemovalSets
  /\ hruntime \in HarnessRuntimes
  /\ hpruned = <<>>
  /\ hported = <<>>
  /\ hstage = "given"
  /\ CompilerIdle
  /\ HarnessIdle
  /\ SnippetHarnessIdle

\* pruneCompose(hsource, hremove) is called.
PruneCompose ==
  /\ hstage = "given"
  /\ \E effect \in {pruneCompose(hsource, hremove)} :
       /\ hsource' = effect.composeSource
       /\ hpruned' = <<effect.compose>>
  /\ hstage' = "pruned"
  /\ UNCHANGED <<hgiven, hremove, hruntime, hported>>
  /\ UNCHANGED gvars
  /\ UNCHANGED ivars
  /\ UNCHANGED nvars

\* ensureComposeDebugPorts(pruned, hruntime) is called on the result.
EnsureComposeDebugPorts ==
  /\ hstage = "pruned"
  /\ hported' = <<ensureComposeDebugPorts(hpruned[1], hruntime)>>
  /\ hstage' = "ported"
  /\ UNCHANGED <<hsource, hgiven, hremove, hruntime, hpruned>>
  /\ UNCHANGED gvars
  /\ UNCHANGED ivars
  /\ UNCHANGED nvars

NextCompose == PruneCompose \/ EnsureComposeDebugPorts

SpecCompose == InitCompose /\ [][NextCompose]_vars

(***************************************************************************)
(* Harness that applies extractLocationBlocks and normalizeSnippetContent  *)
(* to bounded snippets                                                     *)
(***************************************************************************)

\* The number of lines of a snippet.
MaxSnippetLines == 4

\* The lines snippets are made of: a block opening, a whole block on one
\* line with nested braces, a nested opening, a closing brace, a directive
\* the normalization rewrites, a location line whose brace is on the next
\* line, that brace, and text that belongs to no block.
SnippetLineMenu ==
  { "location /a {",
    "  location = /b { if ($x) { return 204; } }",
    "if ($x) {",
    "}",
    "proxy_pass http://localhost:3000;",
    "location /c",
    "{",
    "# note" }

\* The snippet texts: up to MaxSnippetLines lines joined by line ends.
SnippetTexts ==
  {JoinWith(lines, "\n") :
     lines \in UNION {[1..n -> SnippetLineMenu] : n \in 0..MaxSnippetLines}}

\* The RuntimeConfig of the harness: web on port 8080 and the authorizer.
SnippetRuntime ==
  buildRuntimeConfig([services |-> << <<"web", [port |-> "8080"]>>,
                                      <<"authorizer", [port |-> "9000"]>> >>],
                     EmptyObj, {"repos/web", "repos/authorizer"})

InitSnippet ==
  /\ nraw \in SnippetTexts
  /\ nroute = [service |-> "web", path |-> "/web/", stripPrefix |-> TRUE]
  /\ nruntime = SnippetRuntime
  /\ nblocks = <<>>
  /\ nnormalized = ""
  /\ nstage = "given"
  /\ CompilerIdle
  /\ HarnessIdle
  /\ ComposeHarnessIdle

\* extractLocationBlocks(nraw) is called.
ExtractLocationBlocks ==
  /\ nstage = "given"
  /\ nblocks' = extractLocationBlocks(nraw)
  /\ nstage' = "extracted"
  /\ UNCHANGED <<nraw, nroute, nruntime, nnormalized>>
  /\ UNCHANGED gvars
  /\ UNCHANGED ivars
  /\ UNCHANGED hvars

\* normalizeSnippetContent(nraw, nroute, nruntime) is called.
NormalizeSnippet ==
  /\ nstage = "extracted"
  /\ nnormalized' = normalizeSnippetContent(nraw, nroute, nruntime)
  /\ nstage' = "normalized"
  /\ UNCHANGED <<nraw, nroute, nruntime, nblocks>>
  /\ UNCHANGED gvars
  /\ UNCHANGED ivars
  /\ UNCHANGED hvars

NextSnippet == ExtractLocationBlocks \/ NormalizeSnippet

SpecSnippet == InitSnippet /\ [][NextSnippet]_vars

(***************************************************************************)
(* Full and env-only runs of the compiler on a workspace whose             *)
(* repositories and manifest template come and go                          *)
(***************************************************************************)

\* The object with the given <<key, value>> entries.
ObjectOf(entries) ==
  [k \in {entries[i][1] : i \in 1..Len(entries)} |->
     entries[CHOOSE i \in 1..Len(entries) : entries[i][1] = k][2]]

\* <root>/docker-compose.yaml: the application services and the database
\* backends the profiles speak of, and a proxy no profile declares.
\* Dependencies come as lists and as mappings; web maps a port to 9229.
ComposeTemplate ==
  [version |-> "3.9",
   services |-> ObjectOf(
     << <<"api-auth", [image |-> "${IMAGE:-node:20}",
                       ports |-> <<"${API_AUTH_PORT:-4000}:4000">>,
                       depends_on |-> DependsList(<<"auth-postgresql", "authorizer">>)]>>,
        <<"api_auth", [image |-> "node:20"]>>,
        <<"authorizer", [image |-> "node:20",
                         depends_on |-> DependsMap(ObjectOf(
                           << <<"security-postgresql", "service_healthy">> >>))]>>,
        <<"web", [image |-> "node:20", ports |-> <<"8080:8080", "9229:9229">>,
                  depends_on |-> DependsList(<<"api-auth">>)]>>,
        <<"ui", [image |-> "node:20",
                 depends_on |-> DependsMap(ObjectOf(
                   << <<"web", "service_started">>, <<"api-auth", "service_started">> >>))]>>,
        <<"7", NullService>>,
        <<"security-postgresql", [image |-> "postgres:16"]>>,
        <<"auth-postgresql", [image |-> "postgres:16"]>>,
        <<"nginx", [image |-> "nginx:1.27", ports |-> <<"80:80">>,
                    depends_on |-> DependsList(<<"api-auth", "web", "ui">>)]>> >>)]

\* <root>/ops/generated/<name>/docker-compose.yaml, where there is one.
LegacyTemplate ==
  [services |-> ObjectOf(
     << <<"api-auth", [image |-> "node:18"]>>,
        <<"ui", [image |-> "node:18"]>> >>)]

\* The profiles, by number.
\* 1: api-auth with a port and authorizer declared as a database service with
\*    the key security and a local backend; a configured route on the key of
\*    a default route.
\* 2: two services with the token API_AUTH, one with an explicit debug port;
\*    a disabled service; a database that is not local; configured routes
\*    without service or path, for a disabled or unknown service, two
\*    with one key, and one of another service at the path of these.
\* 3: a service whose name is an array index and whose debug port resolves
\*    to nothing unless DBG is set; a database service named after its
\*    backend; two database services with one key, the later one not local.
GenProfiles ==
  << [services |-> << <<"api-auth", [port |-> "4000"]>>,
                     <<"authorizer", [type |-> "database", db_key |-> "security",
                                      use_local |-> TRUE]>> >>,
     nginx |-> [routes |-> << [service |-> "api-auth", path |-> "/api-auth/",
                               strip_prefix |-> FALSE] >>]],
    [services |-> << <<"api-auth", [port |-> "4000", debug_port |-> "9300"]>>,
                     <<"web", [enabled |-> FALSE, port |-> "8080"]>>,
                     <<"api_auth", [port |-> "5000"]>>,
                     <<"db-auth", [use_local |-> FALSE, host |-> "h"]>> >>,
     nginx |-> [routes |-> << [service |-> "web", path |-> "/w"],
                              [path |-> "/x"],
                              [service |-> "api_auth"],
                              [service |-> "ghost", path |-> "/g"],
                              [service |-> "api_auth", path |-> "app"],
                              [service |-> "api_auth", path |-> " /app/ ",
                               strip_prefix |-> FALSE],
                              [service |-> "api-auth", path |-> "/app/"] >>]],
    [services |-> << <<"ui", [port |-> "3000"]>>,
                     <<"security-postgresql", [use_local |-> TRUE]>>,
                     <<"7", [port |-> "7000", debug_port |-> "${DBG}"]>>,
                     <<"auth-postgresql", [use_local |-> TRUE]>>,
                     <<"vault", [db_key |-> "auth", use_local |-> FALSE]>> >>] >>

\* process.env with values that hold placeholders themselves.
GenEnv ==
  [k \in {"IMAGE", "REGISTRY", "HOST", "DBG"} |->
     CASE k = "IMAGE" -> "${REGISTRY}/app"
       [] k = "REGISTRY" -> "${HOST}/r"
       [] k = "HOST" -> "h"
       [] k = "DBG" -> "9777"]

\* <root>/config/nginx/default.conf.template
NginxTemplate == "server {\n  listen ${NGINX_PORT:-80};\n${NGINX_SERVICE_LOCATIONS}\n}\n"

\* The files under <root>/temp, where there are any: snippets for api-auth (one for
\* the profile, with a block at the service's own path and one at /login/,
\* and a general one that the first hides), for ui (a blank one for the
\* profile, skipped, and one with a placeholder and no location block) and
\* for api_auth (a block at the path of a configured route).
SnippetLayout ==
    [f \in {"temp/nginx/metro/api-auth.conf", "temp/nginx/api-auth.conf",
            "temp/nginx/metro/ui.conf", "temp/ui-nginx.conf",
            "temp/nginx/api_auth-nginx.conf"} |->
       CASE f = "temp/nginx/metro/api-auth.conf" ->
              "# api-auth\nlocation /api-auth/ {\n  proxy_pass http://localhost:3000;\n}\n"
                \o "location   /login/   {\n  return 204;\n}\n"
         [] f = "temp/nginx/api-auth.conf" -> "location /old/ { return 410; }"
         [] f = "temp/nginx/metro/ui.conf" -> " \n"
         [] f = "temp/ui-nginx.conf" ->
              "proxy_pass http://127.0.0.1:${SERVICE_PORT};"
         [] f = "temp/nginx/api_auth-nginx.conf" ->
              "location /app/ {\n  proxy_pass http://authorizer:1/x;\n}"]

\* The workspaces: each profile with an empty process.env or with GenEnv,
\* with or without a manifest under ops/generated, with or without
\* snippets; a workspace whose profile file has no document in it, and one
\* without a profile file.
Workspaces ==
  { [profile |-> GenProfiles[1], file |-> "yaml", env |-> EmptyObj, legacy |-> <<>>,
     temp |-> EmptyObj],
    [profile |-> GenProfiles[1], file |-> "yaml", env |-> GenEnv,
     legacy |-> <<LegacyTemplate>>, temp |-> SnippetLayout],
    [profile |-> GenProfiles[2], file |-> "yaml", env |-> EmptyObj,
     legacy |-> <<LegacyTemplate>>, temp |-> SnippetLayout],
    [profile |-> GenProfiles[2], file |-> "yaml", env |-> GenEnv, legacy |-> <<>>,
     temp |-> EmptyObj],
    [profile |-> GenProfiles[3], file |-> "yaml", env |-> GenEnv, legacy |-> <<>>,
     temp |-> SnippetLayout],
    [profile |-> GenProfiles[3], file |-> "yaml", env |-> EmptyObj,
     legacy |-> <<LegacyTemplate>>, temp |-> EmptyObj],
    [profile |-> EmptyObj, file |-> "empty", env |-> GenEnv, legacy |-> <<>>,
     temp |-> SnippetLayout],
    [profile |-> EmptyObj, file |-> "absent", env |-> EmptyObj,
     legacy |-> <<LegacyTemplate>>, temp |-> EmptyObj] }

\* The workspace before the first run: every declared repository is checked
\* out, the manifest template is in the workspace root, nothing is generated.
InitGen ==
  /\ \E w \in Workspaces :
       /\ profileFile = w.profile
       /\ profileOnDisk = w.file
       /\ procEnv = w.env
       /\ legacyCompose = w.legacy
       /\ snippetFiles = w.temp
  /\ fsDirs = RepoPaths(profileFile)
  /\ repoEnvs = EmptyObj
  /\ svcDir = EmptyObj
  /\ stackFile = <<>>
  /\ lastRuntime = <<>>
  /\ runDirs = {}
  /\ rootCompose = <<ComposeTemplate>>
  /\ composeFile = <<>>
  /\ runKind = "none"
  /\ runTemplates = <<>>
  /\ nginxTemplate = NginxTemplate
  /\ nginxFile = <<>>
  /\ HarnessIdle
  /\ ComposeHarnessIdle
  /\ SnippetHarnessIdle

\* Lines 836-844 of a full run: the env files and stack.env are written,
\* then writeGeneratedCompose writes the manifest, or throws and leaves the
\* manifest file as it was and the run ends; then writeGeneratedNginx
\* writes the proxy configuration, or throws and leaves it as it was.
FullRun(runtime, compose, nginx) ==
  /\ lastRuntime' = <<RuntimeAfterWriters(runtime)>>
  /\ svcDir' = writeGeneratedEnvs(runtime, svcDir)
  /\ stackFile' = <<writeGeneratedStackEnv(runtime)>>
  /\ composeFile' = IF compose = <<>> THEN composeFile ELSE compose
  /\ nginxFile' = IF compose = <<>> \/ nginx = <<>> THEN nginxFile ELSE nginx
  /\ runKind' = IF compose = <<>> \/ nginx = <<>> THEN "failed" ELSE "full"

\* generateProfile({profile, envOnly: false, apply: false}); without a
\* profile file buildRuntimeConfig throws and nothing is written.
generateProfileFull ==
  /\ IF loadProfileConfig(profileOnDisk, profileFile) = <<>>
       THEN /\ runKind' = "failed"
            /\ UNCHANGED <<lastRuntime, svcDir, stackFile, composeFile, nginxFile>>
            /\ UNCHANGED <<runDirs, runTemplates>>
       ELSE /\ \E runtime \in {buildRuntimeConfig(
                                 loadProfileConfig(profileOnDisk, profileFile)[1],
                                 procEnv, fsDirs)} :
                 FullRun(runtime,
                         writeGeneratedCompose(runtime,
                                               <<rootCompose, composeFile, legacyCompose>>),
                         writeGeneratedNginx(runtime, nginxTemplate, snippetFiles))
            /\ runDirs' = fsDirs
            /\ runTemplates' = <<rootCompose, legacyCompose>>
  /\ UNCHANGED <<profileFile, profileOnDisk, procEnv, fsDirs, repoEnvs>>
  /\ UNCHANGED <<rootCompose, legacyCompose>>
  /\ UNCHANGED <<nginxTemplate, snippetFiles>>
  /\ UNCHANGED ivars
  /\ UNCHANGED nvars
  /\ UNCHANGED hvars

\* The number of declared repositories that may be missing at a time.
MaxMissingRepos == 1

\* The number of templates that may be missing at a time.
MaxMissingTemplates == 1

\* The templates that are missing.
MissingTemplates ==
  (IF rootCompose = <<>> THEN 1 ELSE 0) + (IF nginxTemplate = "" THEN 1 ELSE 0)

\* Between runs a repository is deleted.
DeleteRepo ==
  /\ Cardinality(RepoPaths(profileFile) \ fsDirs) < MaxMissingRepos
  /\ RemoveRepo

\* Between runs the manifest template of the workspace root is deleted ...
RemoveRootCompose ==
  /\ MissingTemplates < MaxMissingTemplates
  /\ rootCompose # <<>>
  /\ rootCompose' = <<>>
  /\ UNCHANGED <<profileFile, profileOnDisk, procEnv, fsDirs, repoEnvs, svcDir, stackFile, lastRuntime, runDirs>>
  /\ UNCHANGED <<legacyCompose, composeFile, runKind, runTemplates>>
  /\ UNCHANGED pvars
  /\ UNCHANGED ivars
  /\ UNCHANGED nvars
  /\ UNCHANGED hvars

\* ... or put back.
RestoreRootCompose ==
  /\ rootCompose = <<>>
  /\ rootCompose' = <<ComposeTemplate>>
  /\ UNCHANGED <<profileFile, profileOnDisk, procEnv, fsDirs, repoEnvs, svcDir, stackFile, lastRuntime, runDirs>>
  /\ UNCHANGED <<legacyCompose, composeFile, runKind, runTemplates>>
  /\ UNCHANGED pvars
  /\ UNCHANGED ivars
  /\ UNCHANGED nvars
  /\ UNCHANGED hvars

\* The proxy template is deleted ...
RemoveNginxTemplate ==
  /\ MissingTemplates < MaxMissingTemplates
  /\ nginxTemplate # ""
  /\ nginxTemplate' = ""
  /\ UNCHANGED <<profileFile, profileOnDisk, procEnv, fsDirs, repoEnvs, svcDir, stackFile, lastRuntime, runDirs>>
  /\ UNCHANGED fvars
  /\ UNCHANGED <<snippetFiles, nginxFile>>
  /\ UNCHANGED ivars
  /\ UNCHANGED nvars
  /\ UNCHANGED hvars

\* ... or put back.
RestoreNginxTemplate ==
  /\ nginxTemplate = ""
  /\ nginxTemplate' = NginxTemplate
  /\ UNCHANGED <<profileFile, profileOnDisk, procEnv, fsDirs, repoEnvs, svcDir, stackFile, lastRuntime, runDirs>>
  /\ UNCHANGED fvars
  /\ UNCHANGED <<snippetFiles, nginxFile>>
  /\ UNCHANGED ivars
  /\ UNCHANGED nvars
  /\ UNCHANGED hvars

NextGen ==
  \/ generateProfileFull
  \/ generateProfile
  \/ CloneRepo
  \/ DeleteRepo
  \/ RemoveRootCompose
  \/ RestoreRootCompose
  \/ RemoveNginxTemplate
  \/ RestoreNginxTemplate

SpecGen == InitGen /\ [][NextGen]_vars

(***************************************************************************)
(* Claims about interpolate (checked under SpecInterp)                     *)
(***************************************************************************)

RECURSIVE ConcatAll(_)
ConcatAll(strs) ==
  IF strs = <<>> THEN "" ELSE Head(strs) \o ConcatAll(Tail(strs))

\* What the contract gives for one segment: a literal unchanged; for a
\* placeholder the context entry when it exists and is not empty, else the
\* default text when one is given, else the empty string.
ContractValue(seg, context) ==
  IF seg.kind = "lit" THEN seg.text
  ELSE IF seg.name \in DOMAIN context /\ context[seg.name] # "" THEN context[seg.name]
  ELSE IF seg.hasDefault THEN seg.text
  ELSE ""

\* C1: for every template and context, interpolate replaces each ${NAME} or
\* ${NAME:-default} by context[NAME] when that entry exists and is not empty,
\* else by the default text, else by the empty string, and leaves all other
\* text unchanged.
C1_InterpolateContract ==
  tdone => tout = ConcatAll([i \in 1..Len(tsegs) |-> ContractValue(tsegs[i], tctx)])

\* What interpolate substitutes for one segment, taken once.
SubstitutedOnce(seg, context) ==
  IF seg.kind = "lit" THEN seg.text
  ELSE Replacement(context, seg.name, seg.hasDefault, seg.text)

\* Some placeholder of the template is replaced by text that itself holds a
\* placeholder.
SubstitutesPlaceholderText(segs, context) ==
  \E i \in 1..Len(segs) :
    /\ segs[i].kind = "ph"
    /\ HasSubstring(SubstitutedOnce(segs[i], context), "${")

\* C2: interpolate is single pass: when a substituted value itself contains
\* ${X} or ${X:-d}, the result holds that value verbatim, also when X is a
\* key of the context; the result is the literals and the substituted values
\* side by side, none of them expanded again.
C2_SinglePass ==
  (tdone /\ SubstitutesPlaceholderText(tsegs, tctx)) =>
    tout = ConcatAll([i \in 1..Len(tsegs) |-> SubstitutedOnce(tsegs[i], tctx)])

\* C2 witness: ${A} was replaced by "${B}" while B is a non-empty key of the
\* context, and "${B}" is in the result.
C2_Witness ==
  /\ tdone
  /\ \E i \in 1..Len(tsegs) : tsegs[i].kind = "ph" /\ tsegs[i].name = "A"
  /\ "A" \in DOMAIN tctx /\ tctx["A"] = "${B}"
  /\ "B" \in DOMAIN tctx /\ tctx["B"] # ""
  /\ HasSubstring(tout, "${B}")

(***************************************************************************)
(* Claims about the profile compiler (checked under Spec)                  *)
(***************************************************************************)

\* The lines of a text that a line end closes.
LinesOf(text) ==
  LET ends == LineEnds(text)
  IN {SubSeq(text,
             IF \E j \in ends : j < i
               THEN 1 + CHOOSE j \in ends : j < i /\ \A k \in ends : k < i => k <= j
               ELSE 1,
             i - 1) : i \in ends}

\* The position of the first "=" of a line, 0 when it has none.
EqualsAt(line) ==
  LET at == {i \in 1..Len(line) : SubSeq(line, i, i) = "="}
  IN IF at = {} THEN 0 ELSE CHOOSE i \in at : \A j \in at : i <= j

\* A line KEY=value as the pair <<KEY, value>>; <<>> for any other line.
EntryOf(line, at) ==
  IF at = 0 THEN <<>> ELSE <<SubSeq(line, 1, at - 1), SubSeq(line, at + 1, Len(line))>>

\* What a reader of an env file finds in it: every KEY=value line as an
\* entry KEY |-> value (the writer puts every key on one line).
ReadEnvFile(text) ==
  LET pairs == {EntryOf(l, EqualsAt(l)) : l \in LinesOf(text)} \ {<<>>}
  IN [k \in {x[1] : x \in pairs} |-> (CHOOSE x \in pairs : x[1] = k)[2]]

\* A run has happened.
HasRun == lastRuntime # <<>>

\* The services the profile declares, as <<name, config>> pairs in the order
\* the profile file declares them.
Declared == IF Has(profileFile, "services") THEN profileFile["services"] ELSE <<>>

\* The declared services in the order the services loop of a run visits them.
Visited == EntriesOf(profileFile, "services")

\* The services the latest run enabled.
EnabledNow == IF HasRun THEN Range(lastRuntime[1].enabledServices) ELSE {}

\* What is read back from the env file of a service.
ServiceFile(serviceName) == ReadEnvFile(svcDir[serviceName \o ".env"])

\* What is read back from the stack-wide env file.
StackFile == ReadEnvFile(stackFile[1])

\* The keys of a list of <<key, value>> entries.
KeysOf(entries) == {entries[i][1] : i \in 1..Len(entries)}

\* C3: when process.env and the profile (vars or common_env) define the same
\* name, the value of process.env is the one a later template sees: every
\* override template of an enabled service that resolves to a non-empty text
\* is written to the service's file as resolved against a context in which
\* process.env is laid over the profile's values.
C3_ProcessEnvWins ==
  HasRun =>
    LET rt == lastRuntime[1]
        claimed == Merge(Merge(rt.generatedContext, rt.commonEnv), rt.sourceContext)
    IN \A e \in Range(Declared) :
         e[1] \in EnabledNow =>
           \A o \in Range(EntriesOf(e[2], "env")) :
             interpolate(o[2], claimed) # "" =>
               Get(ServiceFile(e[1]), o[1]) = Some(interpolate(o[2], claimed))

\* The application services the latest run should have enabled: not
\* database-classified, not declared enabled: false, repository present when
\* the run looked.
ShouldBeEnabled ==
  {e[1] : e \in {x \in Range(Declared) :
                   /\ ~isDatabaseService(x[1], x[2])
                   /\ ~(Has(x[2], "enabled") /\ x[2]["enabled"] = FALSE)
                   /\ ServiceRepoPath(x[1], x[2]) \in runDirs}}

\* The position of a service in the profile's declaration order.
DeclaredAt(serviceName) ==
  CHOOSE i \in 1..Len(Declared) : Declared[i][1] = serviceName

\* The position of a service in the order the services loop visits them.
VisitedAt(serviceName) ==
  CHOOSE i \in 1..Len(Visited) : Visited[i][1] = serviceName

\* C4 as stated: the enabled-service list holds exactly the application
\* services that are not database-classified, not declared enabled: false and
\* whose repository directory exists, in declaration order and without
\* duplicates.
C4_EnabledServices ==
  HasRun =>
    LET en == lastRuntime[1].enabledServices
    IN /\ Range(en) = ShouldBeEnabled
       /\ \A i \in 1..Len(en) : \A j \in 1..Len(en) :
            i < j => DeclaredAt(en[i]) < DeclaredAt(en[j])

\* C4 amended: the same set, without duplicates, in the order of
\* Object.entries(profile.services): the services whose name is an array
\* index first, in ascending numeric order, then the others in declaration
\* order.
C4_EnabledServicesInEntriesOrder ==
  HasRun =>
    LET en == lastRuntime[1].enabledServices
    IN /\ Range(en) = ShouldBeEnabled
       /\ \A i \in 1..Len(en) : \A j \in 1..Len(en) :
            i < j => VisitedAt(en[i]) < VisitedAt(en[j])
       /\ \A i \in 1..Len(Visited) : \A j \in 1..Len(Visited) :
            (i < j /\ ~IsArrayIndex(Visited[j][1])) =>
              \/ IsArrayIndex(Visited[i][1])
              \/ DeclaredAt(Visited[i][1]) < DeclaredAt(Visited[j][1])
       /\ \A i \in 1..Len(Visited) : \A j \in 1..Len(Visited) :
            (i < j /\ IsArrayIndex(Visited[j][1])) =>
              /\ IsArrayIndex(Visited[i][1])
              /\ ToNumber(Visited[i][1]) < ToNumber(Visited[j][1])

\* C4 witness: a run over a profile that declares a database service and
\* two application services of which one has lost its repository; only the
\* other one is enabled.
C4_Witness ==
  /\ HasRun
  /\ \E e \in Range(Declared) : isDatabaseService(e[1], e[2])
  /\ \E e \in Range(Declared) :
       /\ ~isDatabaseService(e[1], e[2])
       /\ ~(Has(e[2], "enabled") /\ e[2]["enabled"] = FALSE)
       /\ ServiceRepoPath(e[1], e[2]) \notin runDirs
  /\ Len(lastRuntime[1].enabledServices) = 1

\* The generated context the latest run held just before it processed the
\* i-th service of its services loop.
ContextBefore(i) == RuntimeAfter(profileFile, procEnv, runDirs, i - 1).generatedContext

\* No service visited after the i-th is database-classified with the same
\* prefix.
LastWithPrefix(i) ==
  \A j \in (i + 1)..Len(Visited) :
    isDatabaseService(Visited[j][1], Visited[j][2]) =>
      dbPrefix(getDbKey(Visited[j][1], Visited[j][2]))
        # dbPrefix(getDbKey(Visited[i][1], Visited[i][2]))

\* C5 as stated: for every database-classified service with key k and prefix
\* P the runtime context holds USE_LOCAL_P_DB as the string form of its local
\* flag; P_DB_HOST is k-postgresql exactly when the flag is set and no host
\* is declared, is the declared host when there is one, and is not written
\* by the service otherwise.
C5_DatabaseContext ==
  HasRun =>
    \A i \in 1..Len(Visited) :
      isDatabaseService(Visited[i][1], Visited[i][2]) =>
        LET cfg == Visited[i][2]
            k == getDbKey(Visited[i][1], cfg)
            P == dbPrefix(k)
            local == toBoolean(cfg, "use_local", FALSE)
            g == lastRuntime[1].generatedContext
            before == ContextBefore(i)
        IN /\ Get(g, "USE_LOCAL_" \o P \o "_DB") = Some(BoolString(local))
           /\ IF Truthy(cfg, "host")
                THEN Get(g, P \o "_DB_HOST")
                       = Some(interpolate(cfg["host"],
                                          Merge(lastRuntime[1].sourceContext, before)))
              ELSE IF local THEN Get(g, P \o "_DB_HOST") = Some(k \o "-postgresql")
              ELSE Get(g, P \o "_DB_HOST") = Get(before, P \o "_DB_HOST")

\* C5 amended: the same for the last visited database service of each
\* prefix (a later one with the same prefix overwrites the entries), and a
\* declared host is written only when it resolves to a non-empty text: one
\* that resolves to nothing leaves P_DB_HOST as it was, local flag or not.
C5_DatabaseContextOfLastVisited ==
  HasRun =>
    \A i \in 1..Len(Visited) :
      (isDatabaseService(Visited[i][1], Visited[i][2]) /\ LastWithPrefix(i)) =>
        LET cfg == Visited[i][2]
            k == getDbKey(Visited[i][1], cfg)
            P == dbPrefix(k)
            local == toBoolean(cfg, "use_local", FALSE)
            g == lastRuntime[1].generatedContext
            before == ContextBefore(i)
            declaredHost == interpolate(cfg["host"],
                                        Merge(lastRuntime[1].sourceContext, before))
        IN /\ Get(g, "USE_LOCAL_" \o P \o "_DB") = Some(BoolString(local))
           /\ IF Truthy(cfg, "host")
                THEN IF declaredHost # ""
                       THEN Get(g, P \o "_DB_HOST") = Some(declaredHost)
                       ELSE Get(g, P \o "_DB_HOST") = Get(before, P \o "_DB_HOST")
              ELSE IF local THEN Get(g, P \o "_DB_HOST") = Some(k \o "-postgresql")
              ELSE Get(g, P \o "_DB_HOST") = Get(before, P \o "_DB_HOST")

\* C5 witness: vault (key security, a declared host that resolved to "eh")
\* is declared before db-security (key security, local, no host); the
\* context holds what db-security wrote.
C5_Witness ==
  /\ HasRun
  /\ \E i \in 1..Len(Visited) : \E j \in 1..Len(Visited) :
       i < j /\ Visited[i][1] = "vault" /\ Visited[j][1] = "db-security"
  /\ Get(ContextBefore(Len(Visited)), "SECURITY_DB_HOST") = Some("eh")
  /\ Get(lastRuntime[1].generatedContext, "SECURITY_DB_HOST") = Some("security-postgresql")
  /\ Get(lastRuntime[1].generatedContext, "USE_LOCAL_SECURITY_DB") = Some("true")

\* The enabled services that SERVICE_DB_MAP binds to a database the profile
\* declares, as <<name, config>> pairs.
BoundServices ==
  {e \in Range(Declared) :
     /\ e[1] \in EnabledNow
     /\ e[1] \in DOMAIN SERVICE_DB_MAP
     /\ SERVICE_DB_MAP[e[1]] \in DOMAIN lastRuntime[1].dbConfigs}

\* The database descriptor of a bound service.
DescriptorOf(serviceName) == lastRuntime[1].dbConfigs[SERVICE_DB_MAP[serviceName]]

\* The four fields a URL needs are all present in a descriptor.
DescriptorComplete(d) == IsSet(d.host) /\ IsSet(d.user) /\ IsSet(d.password) /\ IsSet(d.name)

\* The variables a service is given by the profile itself: the shared
\* environment and its own overrides.
OwnKeys(e) == DOMAIN lastRuntime[1].commonEnv \cup KeysOf(EntriesOf(e[2], "env"))

\* The URL the contract gives for user u, password p, host h, a port and
\* name n.
ContractUrl(u, p, h, port, n) ==
  ConcatAll(<<"postgresql://", u, ":", p, "@", h, ":", port, "/", n, "?schema=public">>)

\* C6 as stated: a bound service whose database has host h, user u, password
\* p and name n, and which has no DATABASE_URL of its own, gets DATABASE_URL
\* = postgresql://u:p@h:<port>/n?schema=public with the database's port, or
\* 5432 when it has none.
C6_DerivedUrl ==
  HasRun =>
    \A e \in BoundServices :
      LET d == DescriptorOf(e[1])
      IN (DescriptorComplete(d) /\ "DATABASE_URL" \notin OwnKeys(e)) =>
           Get(ServiceFile(e[1]), "DATABASE_URL")
             = Some(ContractUrl(d.user[1], d.password[1], d.host[1],
                                IF IsSet(d.port) THEN d.port[1] ELSE "5432", d.name[1]))

\* A connection value as the service's file has it: its own entry
\* <PREFIX>_DB_<SUFFIX> when that is not empty, else the descriptor's.
ConnectionValueIn(file, d, suffix, fromDescriptor) ==
  OrElse(Get(file, d.prefix \o "_DB_" \o suffix), fromDescriptor)

\* C6 amended: the same, except that each of host, user, password, name and
\* port is the service's own <PREFIX>_DB_* entry (shared environment or
\* override) when that entry is not empty, and the database's value (5432
\* for a missing port) only otherwise.
C6_DerivedUrlFromOwnEntries ==
  HasRun =>
    \A e \in BoundServices :
      LET d == DescriptorOf(e[1])
          file == ServiceFile(e[1])
      IN (DescriptorComplete(d) /\ "DATABASE_URL" \notin OwnKeys(e)) =>
           Get(file, "DATABASE_URL")
             = Some(ContractUrl(
                      ConnectionValueIn(file, d, "USER", d.user)[1],
                      ConnectionValueIn(file, d, "PASSWORD", d.password)[1],
                      ConnectionValueIn(file, d, "HOST", d.host)[1],
                      OrElse(ConnectionValueIn(file, d, "PORT", d.port), Some("5432"))[1],
                      ConnectionValueIn(file, d, "NAME", d.name)[1]))

\* C6 witness: authorizer is enabled, db-security gives a complete
\* descriptor with the local host and no port, the shared environment sets
\* SECURITY_DB_HOST, and the URL in authorizer.env names the shared host and
\* port 5432.
C6_Witness ==
  /\ HasRun
  /\ \E e \in BoundServices :
       /\ e[1] = "authorizer"
       /\ DescriptorComplete(DescriptorOf(e[1]))
       /\ DescriptorOf(e[1]).host = Some("security-postgresql")
       /\ "DATABASE_URL" \notin OwnKeys(e)
       /\ Get(ServiceFile(e[1]), "SECURITY_DB_HOST") = Some("shared-s")
       /\ Get(ServiceFile(e[1]), "DATABASE_URL")
            = Some("postgresql://u:p@shared-s:5432/n?schema=public")

\* Some field a URL needs is missing from a descriptor.
DescriptorLacks(d) == ~DescriptorComplete(d)

\* C7 as stated: a bound service whose descriptor lacks host, user, password
\* or name has no DATABASE_URL in its final environment.
C7_NoUrlFromPartialDescriptor ==
  HasRun =>
    \A e \in BoundServices :
      DescriptorLacks(DescriptorOf(e[1])) =>
        "DATABASE_URL" \notin DOMAIN ServiceFile(e[1])

\* Some field a URL needs is missing from the descriptor and from the
\* service's own <PREFIX>_DB_* entries as well.
LacksEverywhere(file, d) ==
  \/ ~IsSet(ConnectionValueIn(file, d, "HOST", d.host))
  \/ ~IsSet(ConnectionValueIn(file, d, "USER", d.user))
  \/ ~IsSet(ConnectionValueIn(file, d, "PASSWORD", d.password))
  \/ ~IsSet(ConnectionValueIn(file, d, "NAME", d.name))

\* C7 amended: when host, user, password or name is missing from the
\* descriptor and from the service's own <PREFIX>_DB_* entries, no URL is
\* derived: the final environment has a DATABASE_URL only if the shared
\* environment or an override of the service defines it.
C7_NoUrlDerivedFromPartialValues ==
  HasRun =>
    \A e \in BoundServices :
      LacksEverywhere(ServiceFile(e[1]), DescriptorOf(e[1])) =>
        ("DATABASE_URL" \in DOMAIN ServiceFile(e[1]) => "DATABASE_URL" \in OwnKeys(e))

\* C7 witness: authorizer is bound to the database of vault, which has host,
\* user and name but no password; authorizer.env has no DATABASE_URL.
C7_Witness ==
  /\ HasRun
  /\ \E e \in BoundServices :
       LET d == DescriptorOf(e[1])
       IN /\ IsSet(d.host) /\ IsSet(d.user) /\ IsSet(d.name) /\ ~IsSet(d.password)
          /\ ~IsSet(Get(ServiceFile(e[1]), d.prefix \o "_DB_PASSWORD"))
          /\ "DATABASE_URL" \notin DOMAIN ServiceFile(e[1])

\* What the profile itself gives a service: the shared environment with the
\* service's overrides, resolved, laid over it.
OwnEnv(e) ==
  LET rt == lastRuntime[1]
  IN Merge(rt.commonEnv,
           interpolateRecord(EmptyObj, EntriesOf(e[2], "env"),
                             Merge(Merge(rt.sourceContext, rt.generatedContext),
                                   rt.commonEnv), 1))

\* C8: the derived URL never overwrites: a non-empty DATABASE_URL or
\* REPORTS_DATABASE_URL from the shared environment or an override is in the
\* service's file unchanged; when both are unset a bound service with a
\* complete descriptor gets DATABASE_URL and, unless it is authorizer, a
\* REPORTS_DATABASE_URL equal to it; authorizer never gets a derived
\* REPORTS_DATABASE_URL.
C8_DerivedUrlNeverOverwrites ==
  HasRun =>
    \A e \in Range(Declared) :
      e[1] \in EnabledNow =>
        LET own == OwnEnv(e)
            file == ServiceFile(e[1])
        IN /\ \A K \in {"DATABASE_URL", "REPORTS_DATABASE_URL"} :
                IsSet(Get(own, K)) => Get(file, K) = Get(own, K)
           /\ (e[1] = "authorizer" /\ ~IsSet(Get(own, "REPORTS_DATABASE_URL"))) =>
                Get(file, "REPORTS_DATABASE_URL") = Get(own, "REPORTS_DATABASE_URL")
           /\ ( /\ e \in BoundServices
                /\ DescriptorComplete(DescriptorOf(e[1]))
                /\ ~IsSet(Get(own, "DATABASE_URL"))
                /\ ~IsSet(Get(own, "REPORTS_DATABASE_URL")) ) =>
                /\ IsSet(Get(file, "DATABASE_URL"))
                /\ e[1] # "authorizer" =>
                     Get(file, "REPORTS_DATABASE_URL") = Get(file, "DATABASE_URL")

\* C8 witness: api-security overrides DATABASE_URL and is bound to the
\* complete database of db-security; its file keeps the override and has a
\* derived REPORTS_DATABASE_URL, while authorizer in the same profile has a
\* derived DATABASE_URL and no REPORTS_DATABASE_URL.
C8_Witness ==
  /\ HasRun
  /\ {"api-security", "authorizer"} \subseteq EnabledNow
  /\ \A e \in BoundServices : DescriptorComplete(DescriptorOf(e[1]))
  /\ Get(ServiceFile("api-security"), "DATABASE_URL") = Some("preset://db")
  /\ Get(ServiceFile("api-security"), "REPORTS_DATABASE_URL")
       = Some("postgresql://u:p@replica:5432/n?schema=public")
  /\ Get(ServiceFile("authorizer"), "DATABASE_URL")
       = Some("postgresql://u:p@security-postgresql:5432/n?schema=public")
  /\ "REPORTS_DATABASE_URL" \notin DOMAIN ServiceFile("authorizer")

\* The variables set both in the shared environment and in the overrides of
\* a service.
SetInBoth(e) == DOMAIN lastRuntime[1].commonEnv \cap KeysOf(EntriesOf(e[2], "env"))

\* C9 as stated: for a variable set both in the shared environment and in a
\* service's overrides, the service's file carries the override value, the
\* stack-wide file carries the shared value, and the file of any other
\* service that does not override it carries the shared value too.
C9_OverridePrecedence ==
  HasRun =>
    \A e \in Range(Declared) :
      e[1] \in EnabledNow =>
        \A K \in SetInBoth(e) :
          /\ Get(ServiceFile(e[1]), K) = Some(OwnEnv(e)[K])
          /\ Get(StackFile, K) = Some(lastRuntime[1].commonEnv[K])
          /\ \A o \in Range(Declared) :
               (o[1] \in EnabledNow /\ K \notin KeysOf(EntriesOf(o[2], "env"))) =>
                 Get(ServiceFile(o[1]), K) = Some(lastRuntime[1].commonEnv[K])

\* The variables buildServiceEnv and ensureDatabaseUrls fill when they are
\* empty.
FilledWhenEmpty == {"API_PORT", "LOG_LEVEL", "DATABASE_URL", "REPORTS_DATABASE_URL"}

\* The context entries the services loop writes for the declared database
\* services and the enabled application services.
WrittenByServicesLoop ==
  UNION {IF isDatabaseService(e[1], e[2])
           THEN {"USE_LOCAL_" \o dbPrefix(getDbKey(e[1], e[2])) \o "_DB"}
                \cup {dbPrefix(getDbKey(e[1], e[2])) \o "_DB_" \o x :
                        x \in {"HOST", "USER", "PASSWORD", "NAME", "PORT"}}
           ELSE {normalizeServiceToken(e[1]) \o x : x \in {"_PORT", "_DEBUG_PORT", "_CMD"}}
         : e \in Range(Declared)}

\* C9 amended: the service's file carries the override value unless the
\* override resolves to the empty string for one of the variables that are
\* filled when empty; the stack-wide file carries the shared value unless
\* the services loop wrote the same variable afterwards (a database
\* service's <PREFIX>_DB_* entries, a service's port, debug port or
\* command); the file of any other service that does not override the
\* variable carries the shared value, with the same exception for an empty
\* shared value.
C9_OverridePrecedenceUnlessRefilled ==
  HasRun =>
    LET shared == lastRuntime[1].commonEnv
        stack == StackFile
        overriding == {e \in Range(Declared) : e[1] \in EnabledNow /\ SetInBoth(e) # {}}
    IN /\ \A e \in overriding :
            LET own == OwnEnv(e)
                file == ServiceFile(e[1])
            IN \A K \in SetInBoth(e) :
                 /\ (own[K] # "" \/ K \notin FilledWhenEmpty) => Get(file, K) = Some(own[K])
                 /\ K \notin WrittenByServicesLoop => Get(stack, K) = Some(shared[K])
       /\ overriding # {} =>
            \A o \in Range(Declared) :
              o[1] \in EnabledNow =>
                LET file == ServiceFile(o[1])
                IN \A K \in UNION {SetInBoth(e) : e \in overriding \ {o}} :
                     ( /\ K \notin KeysOf(EntriesOf(o[2], "env"))
                       /\ (shared[K] # "" \/ K \notin FilledWhenEmpty) ) =>
                       Get(file, K) = Some(shared[K])

\* C9 witness: FOO is shared and overridden by api-auth; api-auth.env has
\* the override, stack.env and the file of another enabled service have the
\* shared value.
C9_Witness ==
  /\ HasRun
  /\ "api-auth" \in EnabledNow
  /\ Get(lastRuntime[1].commonEnv, "FOO") = Some("shared")
  /\ Get(ServiceFile("api-auth"), "FOO") = Some("own-pv")
  /\ Get(StackFile, "FOO") = Some("shared")
  /\ \E o \in EnabledNow \ {"api-auth"} : Get(ServiceFile(o), "FOO") = Some("shared")

\* The .env files of the generated services directory.
EnvFilesNow == {f \in DOMAIN svcDir : EndsWith(f, ".env")}

\* C10: after every run of every sequence of runs, whatever repositories
\* came and went in between, the <service>.env files of the generated
\* services directory are exactly those of the services the run enabled,
\* each holding what the run computed for it; any other .env file is gone.
C10_EnvFilesAreEnabledSet ==
  HasRun =>
    /\ EnvFilesNow = {x \o ".env" : x \in EnabledNow}
    /\ \A e \in Range(Declared) :
         e[1] \in EnabledNow =>
           svcDir[e[1] \o ".env"] = serializeEnv(buildServiceEnv(e[1], e[2], lastRuntime[1]))

\* C10 witness: a run that found the repository of a declared, enabled
\* service removed: that service has no file, web.env (left by an earlier
\* run, web being disabled now) and the stray legacy.env are deleted,
\* another service has its file, and notes.txt is still there.
C10_Witness ==
  /\ HasRun
  /\ \E e \in Range(Declared) :
       /\ ~isDatabaseService(e[1], e[2])
       /\ ~(Has(e[2], "enabled") /\ e[2]["enabled"] = FALSE)
       /\ ServiceRepoPath(e[1], e[2]) \notin runDirs
       /\ (e[1] \o ".env") \notin DOMAIN svcDir
  /\ \E e \in Range(Declared) : e[1] = "web"
  /\ "web.env" \notin DOMAIN svcDir
  /\ "legacy.env" \notin DOMAIN svcDir
  /\ "notes.txt" \in DOMAIN svcDir
  /\ EnabledNow # {}

\* The fields of a database descriptor that have a context entry, with the
\* suffix of the entry's key.
DbFieldSuffix ==
  [f \in {"host", "user", "password", "name", "port"} |->
     CASE f = "host" -> "_DB_HOST"
       [] f = "user" -> "_DB_USER"
       [] f = "password" -> "_DB_PASSWORD"
       [] f = "name" -> "_DB_NAME"
       [] f = "port" -> "_DB_PORT"]

\* A field of a descriptor is set: it is neither undefined nor empty.
FieldSet(opt) == opt # <<>> /\ opt[1] # ""

\* C28: for every database key and every field of the descriptor cached for
\* it, the runtime context holds the field's value under <PREFIX>_DB_<FIELD>
\* when the field is set, and when it is not set no database service wrote
\* that entry: it is as it was before the services loop.
C28_ContextAgreesWithDescriptor ==
  HasRun =>
    \A k \in DOMAIN lastRuntime[1].dbConfigs : \A f \in DOMAIN DbFieldSuffix :
      LET d == lastRuntime[1].dbConfigs[k]
          key == d.prefix \o DbFieldSuffix[f]
      IN IF FieldSet(d[f])
           THEN Get(lastRuntime[1].generatedContext, key) = Some(d[f][1])
           ELSE Get(lastRuntime[1].generatedContext, key) = Get(ContextBefore(1), key)

(***************************************************************************)
(* Claims about pruneCompose and ensureComposeDebugPorts (checked under    *)
(* SpecCompose)                                                            *)
(***************************************************************************)

\* The services of the manifest the harness passed to pruneCompose.
GivenServices == ServicesOf(hgiven)

\* The services of the manifest pruneCompose returned.
PrunedServices == ServicesOf(hpruned[1])

\* pruneCompose has returned.
HasPruned == hstage \in {"pruned", "ported"}

\* The names a dependency declaration holds.
DependencyNames(dependsOn) ==
  IF Has(dependsOn, "list") THEN Range(dependsOn["list"]) ELSE DOMAIN dependsOn["map"]

\* The positions of a dependency list whose name is not in the removal set.
KeptPositions(items) == {i \in 1..Len(items) : items[i] \notin hremove}

\* The k-th of them.
KeptPosition(items, k) ==
  CHOOSE i \in KeptPositions(items) :
    Cardinality({j \in KeptPositions(items) : j <= i}) = k

\* after is the declaration before with exactly the names of the removal set
\* taken out: same form, the other names kept (a list keeps their order and
\* repetitions, a mapping keeps their conditions).
SameButRemoved(before, after) ==
  IF Has(before, "list")
    THEN /\ Has(after, "list")
         /\ Len(after["list"]) = Cardinality(KeptPositions(before["list"]))
         /\ \A k \in 1..Len(after["list"]) :
              after["list"][k] = before["list"][KeptPosition(before["list"], k)]
    ELSE /\ Has(after, "map")
         /\ DOMAIN after["map"] = (DOMAIN before["map"]) \ hremove
         /\ \A n \in DOMAIN after["map"] : after["map"][n] = before["map"][n]

\* C12: the manifest pruneCompose returns has exactly the services of the
\* given manifest that are not in the removal set; no dependency
\* declaration of a remaining service, list or mapping, names a removed
\* service, and every other dependency is kept.
C12_PruneRemovesServicesAndDependencies ==
  HasPruned =>
    /\ DOMAIN PrunedServices = (DOMAIN GivenServices) \ hremove
    /\ \A n \in DOMAIN PrunedServices :
         (IsObject(GivenServices[n]) /\ Has(GivenServices[n], "depends_on")) =>
           /\ Has(PrunedServices[n], "depends_on")
           /\ DependencyNames(PrunedServices[n]["depends_on"]) \cap hremove = {}
           /\ SameButRemoved(GivenServices[n]["depends_on"], PrunedServices[n]["depends_on"])

\* C12 witness: a service was removed, and a list and a mapping of
\* remaining services each lost a name and kept another.
C12_Witness ==
  /\ HasPruned
  /\ (DOMAIN GivenServices) \cap hremove # {}
  /\ \E n \in DOMAIN PrunedServices : \E m \in DOMAIN PrunedServices :
       /\ IsObject(GivenServices[n]) /\ Has(GivenServices[n], "depends_on")
       /\ IsObject(GivenServices[m]) /\ Has(GivenServices[m], "depends_on")
       /\ Has(GivenServices[n]["depends_on"], "list")
       /\ Has(GivenServices[m]["depends_on"], "map")
       /\ Range(GivenServices[n]["depends_on"]["list"]) \cap hremove # {}
       /\ (DOMAIN GivenServices[m]["depends_on"]["map"]) \cap hremove # {}
       /\ PrunedServices[n]["depends_on"]["list"] # <<>>
       /\ DOMAIN PrunedServices[m]["depends_on"]["map"] # {}

\* The fields of a service definition other than one.
OtherFields(serviceConfig, field) ==
  [k \in (DOMAIN serviceConfig) \ {field} |-> serviceConfig[k]]

\* C13: the object passed to pruneCompose holds after the call what it held
\* before; a service without a dependency section comes out of pruneCompose
\* as it was, and ensureComposeDebugPorts gives a service without a ports
\* section a port list and leaves its other fields alone.
C13_PruneLeavesInputAlone ==
  /\ HasPruned =>
       /\ hsource = hgiven
       /\ hpruned # <<>>
       /\ \A n \in DOMAIN PrunedServices :
            (~IsObject(GivenServices[n]) \/ ~Has(GivenServices[n], "depends_on")) =>
              PrunedServices[n] = GivenServices[n]
  /\ hstage = "ported" =>
       /\ hported # <<>>
       /\ DOMAIN ServicesOf(hported[1]) = DOMAIN PrunedServices
       /\ \A n \in DOMAIN PrunedServices :
            IF IsObject(PrunedServices[n]) /\ ~Has(PrunedServices[n], "ports")
              THEN OtherFields(ServicesOf(hported[1])[n], "ports") = PrunedServices[n]
              ELSE OtherFields(ServicesOf(hported[1])[n], "ports")
                     = OtherFields(PrunedServices[n], "ports")

\* C13 witness: both calls have returned on a manifest of which the pruner
\* removed a service and cut a dependency, with a service that has neither
\* a dependency section nor a ports section and is enabled.
C13_Witness ==
  /\ hstage = "ported"
  /\ (DOMAIN GivenServices) \cap hremove # {}
  /\ hpruned[1] # hgiven
  /\ \E n \in DOMAIN PrunedServices :
       /\ IsObject(PrunedServices[n])
       /\ ~Has(PrunedServices[n], "depends_on")
       /\ ~Has(PrunedServices[n], "ports")
       /\ n \in Range(hruntime.enabledServices)
  /\ \E n \in DOMAIN PrunedServices :
       /\ IsObject(GivenServices[n]) /\ Has(GivenServices[n], "depends_on")
       /\ PrunedServices[n] # GivenServices[n]

\* The container port of a port mapping: what follows the last colon, up to
\* a "/protocol" suffix.
ContainerPort(entry) ==
  LET colons == {i \in 1..Len(entry) : Ch(entry, i) = ":"}
      from == IF colons = {} THEN 1 ELSE (CHOOSE i \in colons : \A j \in colons : j <= i) + 1
      slashes == {i \in from..Len(entry) : Ch(entry, i) = "/"}
      to == IF slashes = {} THEN Len(entry)
            ELSE (CHOOSE i \in slashes : \A j \in slashes : i <= j) - 1
  IN SubSeq(entry, from, to)

\* A port list maps something to the container port 9229.
MapsToDebugPort(ports) == \E i \in 1..Len(ports) : ContainerPort(ports[i]) = "9229"

\* The debug port the Writer resolved for a service: the entry
\* <TOKEN>_DEBUG_PORT of the runtime context, absent when the Writer
\* resolved none.
WriterDebugPort(serviceName) ==
  Get(hruntime.generatedContext, normalizeServiceToken(serviceName) \o "_DEBUG_PORT")

\* C17: every enabled service of the pruned manifest whose port list maps
\* nothing to 9229 gets "<p>:9229" appended, p being the debug port the
\* Writer resolved (the declared debug port, else the service port plus two),
\* and gets nothing appended when the Writer resolved none; a port list that
\* maps something to 9229 already is left as it is.
C17_DebugPortMapping ==
  hstage = "ported" =>
    \A n \in DOMAIN PrunedServices :
      (n \in Range(hruntime.enabledServices) /\ IsObject(PrunedServices[n])) =>
        LET before == PortsOf(PrunedServices[n])
            after == ServicesOf(hported[1])[n]["ports"]
        IN IF MapsToDebugPort(before) THEN after = before
           ELSE IF IsSet(WriterDebugPort(n))
             THEN after = Append(before, WriterDebugPort(n)[1] \o ":9229")
           ELSE after = before

(***************************************************************************)
(* Claims about full runs (checked under SpecGen)                          *)
(***************************************************************************)

\* The latest run was a full run that completed.
FullRunDone == runKind = "full"

\* The latest run was a full run that completed and read the manifest
\* template of the workspace root.
FullRunFromRoot == runKind = "full" /\ runTemplates[1] # <<>>

\* The services of the manifest on disk.
ManifestServices == ServicesOf(composeFile[1])

\* The services of the manifest template of the workspace root as the latest
\* full run found it.
RootServices == ServicesOf(runTemplates[1][1])

\* The declared database services, as <<name, config>> pairs.
DeclaredDatabases == {e \in Range(Declared) : isDatabaseService(e[1], e[2])}

\* The backends of the database keys whose descriptor is not local.
RemoteBackends ==
  {getDbKey(e[1], e[2]) \o "-postgresql" :
     e \in {x \in DeclaredDatabases :
              ~lastRuntime[1].dbConfigs[getDbKey(x[1], x[2])].useLocal}}

\* The backends of the database keys whose descriptor is local.
LocalBackends ==
  {getDbKey(e[1], e[2]) \o "-postgresql" :
     e \in {x \in DeclaredDatabases :
              lastRuntime[1].dbConfigs[getDbKey(x[1], x[2])].useLocal}}

\* The declared application services that the latest run did not enable.
IdleApplications ==
  {e[1] : e \in {x \in Range(Declared) \ DeclaredDatabases : x[1] \notin EnabledNow}}

\* C14: the manifest a full run writes has none of: the backend
\* <key>-postgresql of a database whose descriptor is not local, a declared
\* application service that is not enabled; made from the template of the
\* workspace root it has every other service of the template, the backends
\* of local databases and the enabled services among them.
C14_RemovalSet ==
  /\ FullRunDone =>
       (DOMAIN ManifestServices) \cap (RemoteBackends \cup IdleApplications) = {}
  /\ FullRunFromRoot =>
       /\ DOMAIN ManifestServices
            = (DOMAIN RootServices) \ (RemoteBackends \cup IdleApplications)
       /\ (LocalBackends \cap DOMAIN RootServices) \subseteq DOMAIN ManifestServices
       /\ (EnabledNow \cap DOMAIN RootServices) \subseteq DOMAIN ManifestServices

\* C14 witness: a full run from the root template removed a backend and an
\* application service whose repository is gone, and kept a local backend
\* and an enabled service.
C14_Witness ==
  /\ FullRunFromRoot
  /\ RemoteBackends \cap DOMAIN RootServices # {}
  /\ \E e \in Range(Declared) \ DeclaredDatabases :
       /\ DeclaredEnabled(e[2])
       /\ e[1] \in IdleApplications \cap DOMAIN RootServices
  /\ LocalBackends \cap DOMAIN ManifestServices # {}
  /\ EnabledNow \cap DOMAIN ManifestServices # {}

\* The latest run is the end-to-end scenario: a full run from the root
\* template with api-auth (port 4000) enabled and authorizer declared as a
\* database service with the key security and a local backend.
EndToEndScenario ==
  /\ FullRunFromRoot
  /\ \E e \in Range(Declared) : e[1] = "api-auth" /\ e[2] = [port |-> "4000"]
  /\ "api-auth" \in EnabledNow
  /\ \E e \in DeclaredDatabases :
       /\ e[1] = "authorizer"
       /\ getDbKey(e[1], e[2]) = "security"
       /\ lastRuntime[1].dbConfigs["security"].useLocal

\* C15 as stated: in the end-to-end scenario the manifest keeps
\* security-postgresql and has no authorizer; no service declared as a
\* database service is in the manifest of a full run under its own name.
C15_DatabaseServiceNotInManifest ==
  /\ EndToEndScenario =>
       /\ "security-postgresql" \in DOMAIN ManifestServices
       /\ "authorizer" \notin DOMAIN ManifestServices
  /\ FullRunDone =>
       \A e \in DeclaredDatabases : e[1] \notin DOMAIN ManifestServices

\* C15 amended: in the end-to-end scenario the manifest keeps
\* security-postgresql, and keeps the template's authorizer as well, which
\* is not an enabled service; a service declared as a database service goes
\* from the manifest only if its name is the backend of a database that is
\* not local.
C15_DatabaseServiceKeptUnlessRemoteBackend ==
  /\ EndToEndScenario =>
       /\ "security-postgresql" \in DOMAIN ManifestServices
       /\ "authorizer" \in DOMAIN ManifestServices
       /\ "authorizer" \notin EnabledNow
  /\ FullRunFromRoot =>
       \A e \in DeclaredDatabases :
         e[1] \in DOMAIN RootServices =>
           (e[1] \in DOMAIN ManifestServices <=> e[1] \notin RemoteBackends)

\* C15 witness: the end-to-end scenario has run and the manifest holds
\* api-auth, authorizer and security-postgresql.
C15_Witness ==
  /\ EndToEndScenario
  /\ {"api-auth", "authorizer", "security-postgresql"} \subseteq DOMAIN ManifestServices

\* The context key of the debug port of a service.
DebugPortKey(serviceName) == normalizeServiceToken(serviceName) \o "_DEBUG_PORT"

\* The context the latest run interpolated the i-th visited service with.
ContextAt(i) == Merge(lastRuntime[1].sourceContext, ContextBefore(i))

LastWithToken(i) ==
  \A j \in (i + 1)..Len(Visited) :
    Visited[j][1] \in EnabledNow =>
      normalizeServiceToken(Visited[j][1]) # normalizeServiceToken(Visited[i][1])

RoutesNow == resolveNginxRoutes(lastRuntime[1])

\* The configured routes of the profile that name an enabled service and
\* have a path, by position.
ValidConfigured ==
  {k \in 1..Len(ConfiguredOf(profileFile)) :
     /\ Truthy(ConfiguredOf(profileFile)[k], "service")
     /\ Truthy(ConfiguredOf(profileFile)[k], "path")
     /\ ConfiguredOf(profileFile)[k]["service"] \in EnabledNow}

\* The (service, path) key of the k-th configured route.
ConfiguredKey(k) ==
  <<ConfiguredOf(profileFile)[k]["service"],
    normalizeRoutePath(ConfiguredOf(profileFile)[k]["path"])>>

\* The strip-prefix setting of the k-th configured route.
ConfiguredStrip(k) ==
  ~(Has(ConfiguredOf(profileFile)[k], "strip_prefix")
    /\ ConfiguredOf(profileFile)[k]["strip_prefix"] = FALSE)

\* The last valid configured route with the key of the k-th.
LastConfigured(k) ==
  CHOOSE m \in ValidConfigured :
    /\ ConfiguredKey(m) = ConfiguredKey(k)
    /\ \A n \in ValidConfigured : ConfiguredKey(n) = ConfiguredKey(k) => n <= m

\* The default routes as the contract gives them.
ContractDefaults ==
  {[service |-> n, path |-> "/" \o n \o "/", stripPrefix |-> TRUE] : n \in EnabledNow}
  \cup (IF "api-auth" \in EnabledNow
          THEN {[service |-> "api-auth", path |-> "/login/", stripPrefix |-> FALSE],
                [service |-> "api-auth", path |-> "/user/", stripPrefix |-> FALSE]}
          ELSE {})

\* C18: the resolved routes are unique by (service, path); every configured
\* route with a service and a path whose service is enabled is among them
\* with its strip-prefix setting, in place of a default route with the same
\* key; the other routes are default routes; no route is for a service that
\* is not enabled.
C18_RoutesUniqueConfiguredWins ==
  FullRunDone =>
    /\ \A i \in 1..Len(RoutesNow) : \A j \in 1..Len(RoutesNow) :
         i # j => <<RoutesNow[i].service, RoutesNow[i].path>>
                    # <<RoutesNow[j].service, RoutesNow[j].path>>
    /\ \A k \in ValidConfigured :
         \E i \in 1..Len(RoutesNow) :
           /\ <<RoutesNow[i].service, RoutesNow[i].path>> = ConfiguredKey(k)
           /\ RoutesNow[i].stripPrefix = ConfiguredStrip(LastConfigured(k))
    /\ \A i \in 1..Len(RoutesNow) :
         /\ RoutesNow[i].service \in EnabledNow
         /\ \/ \E k \in ValidConfigured :
                 <<RoutesNow[i].service, RoutesNow[i].path>> = ConfiguredKey(k)
            \/ RoutesNow[i] \in ContractDefaults

\* C18 witness: a full run with api-auth enabled and a configured route
\* (api-auth, /api-auth/) that does not strip the prefix; the one route
\* with that key is the configured one.
C18_Witness ==
  /\ FullRunDone
  /\ "api-auth" \in EnabledNow
  /\ \E k \in ValidConfigured :
       ConfiguredKey(k) = <<"api-auth", "/api-auth/">> /\ ~ConfiguredStrip(k)
  /\ \E i \in 1..Len(RoutesNow) :
       RoutesNow[i] = [service |-> "api-auth", path |-> "/api-auth/", stripPrefix |-> FALSE]

\* C19: the default routes are, for every enabled service, one route at
\* /<name>/ that strips the prefix, for api-auth also /login/ and /user/
\* that do not, and no other; the path of every resolved route starts and
\* ends with a slash.
C19_DefaultRoutes ==
  FullRunDone =>
    LET defaults == DefaultRoutes(lastRuntime[1].enabledServices, 1)
    IN /\ Range(defaults) = ContractDefaults
       /\ Len(defaults) = Cardinality(ContractDefaults)
       /\ \A i \in 1..Len(RoutesNow) :
            /\ Ch(RoutesNow[i].path, 1) = "/"
            /\ Ch(RoutesNow[i].path, Len(RoutesNow[i].path)) = "/"

\* C19 witness: a full run with api-auth and another service enabled, and a
\* configured path written without slashes among the resolved routes.
C19_Witness ==
  /\ FullRunDone
  /\ {"api-auth", "api_auth"} \subseteq EnabledNow
  /\ \E k \in ValidConfigured : ConfiguredOf(profileFile)[k]["path"] = "app"
  /\ \E i \in 1..Len(RoutesNow) : RoutesNow[i].path = "/app/"

\* The workspace is as the latest run found it, that run was a full run
\* that completed, and a full run is made again and completes.
SecondRunUnchangedInputs ==
  /\ runKind = "full"
  /\ runDirs = fsDirs
  /\ runTemplates = <<rootCompose, legacyCompose>>
  /\ generateProfileFull
  /\ runKind' = "full"

\* C11: a second full run on unchanged profile, templates, snippets,
\* repositories and process environment leaves the env files, stack.env,
\* the manifest and the proxy configuration as the first run wrote them.
C11_SecondRunChangesNothing ==
  [][SecondRunUnchangedInputs =>
       /\ svcDir' = svcDir
       /\ stackFile' = stackFile
       /\ composeFile' = composeFile
       /\ nginxFile' = nginxFile]_vars

\* The lines of the proxy configuration on disk that stand for
\* ${NGINX_SERVICE_LOCATIONS}: those after the server and listen lines and
\* before the closing brace of the server block.
ProxyBodyLines ==
  LET lines == SplitLines(nginxFile[1])
  IN SubSeq(lines, 3, Len(lines) - 2)

\* The groups of consecutive non-empty lines from the i-th line on, current
\* being the group that is open.
RECURSIVE Paragraphs(_, _, _)
Paragraphs(lines, i, current) ==
  IF i > Len(lines) THEN (IF current = <<>> THEN <<>> ELSE <<current>>)
  ELSE IF lines[i] = ""
    THEN (IF current = <<>> THEN <<>> ELSE <<current>>) \o Paragraphs(lines, i + 1, <<>>)
  ELSE Paragraphs(lines, i + 1, Append(current, lines[i]))

\* The blocks of the proxy configuration on disk, each as its lines.
EmittedBlocks == Paragraphs(ProxyBodyLines, 1, <<>>)

\* The blocks the snippet of a route's service holds for the proxy
\* configuration: the location blocks of the rewritten and interpolated
\* snippet, or the whole of it when it has none.
SnippetBlocksOf(route) ==
  LET path == resolveNginxSnippetPath(snippetFiles, route.service)[1]
      text == interpolate(normalizeSnippetContent(Trim(readText(snippetFiles, path)),
                                                  route, lastRuntime[1]),
                          SnippetContext(lastRuntime[1], route))
      extracted == extractLocationBlocks(text)
  IN IF Len(extracted) > 0 THEN extracted ELSE <<text>>

\* The blocks the i-th resolved route offers, in their order: a service
\* without a snippet offers the default block of the route; a service with
\* one offers the blocks of the snippet at its first route, and the default
\* block of every route that is not at the service's own path.
OfferedBy(i) ==
  LET route == RoutesNow[i]
      default == <<buildDefaultNginxLocationBlock(route, lastRuntime[1])>>
  IN IF resolveNginxSnippetPath(snippetFiles, route.service) = <<>> THEN default
     ELSE (IF \E j \in 1..(i - 1) : RoutesNow[j].service = route.service
             THEN <<>> ELSE SnippetBlocksOf(route))
          \o (IF route.path # "/" \o route.service \o "/" THEN default ELSE <<>>)

\* The formatted blocks all routes offer from the i-th route on, in route
\* processing order.
RECURSIVE OfferedFrom(_)
OfferedFrom(i) ==
  IF i > Len(RoutesNow) THEN <<>>
  ELSE [k \in DOMAIN OfferedBy(i) |-> formatNginxLocationBlock(OfferedBy(i)[k])]
         \o OfferedFrom(i + 1)

\* The members of seq at the positions in idx, in their order.
AtPositions(seq, idx) ==
  [k \in 1..Cardinality(idx) |->
     seq[CHOOSE p \in idx : Cardinality({q \in idx : q <= p}) = k]]

\* C21: no two location blocks of the proxy configuration a full run wrote
\* have the same normalized header, and the blocks written are, in route
\* processing order, the offered blocks that are not blank and whose header,
\* if they have one, no earlier offered block has.
C21_FirstHeaderWins ==
  FullRunDone =>
    LET emitted == EmittedBlocks
        headers == [k \in DOMAIN emitted |-> HeaderIn(emitted[k])]
        offered == OfferedFrom(1)
        offeredHeaders == [k \in DOMAIN offered |-> extractLocationHeader(offered[k])]
        kept == {k \in DOMAIN offered :
                   /\ Trim(offered[k]) # ""
                   /\ IsSet(offeredHeaders[k]) =>
                        \A j \in 1..(k - 1) : offeredHeaders[j] # offeredHeaders[k]}
    IN /\ \A i \in DOMAIN emitted : \A j \in DOMAIN emitted :
            (i # j /\ IsSet(headers[i])) => headers[i] # headers[j]
       /\ [k \in DOMAIN emitted |-> JoinWith(emitted[k], "\n")] = AtPositions(offered, kept)

\* C21 witness: a full run wrote a proxy configuration with the block of
\* the api-auth snippet for /login/ (return 204), and the default block for
\* the route (api-auth, /login/), offered later with the same header, is
\* not in it.
C21_Witness ==
  /\ FullRunDone
  /\ \E i \in DOMAIN EmittedBlocks :
       /\ HeaderIn(EmittedBlocks[i]) = Some("location /login/ {")
       /\ \E k \in DOMAIN EmittedBlocks[i] : Trim(EmittedBlocks[i][k]) = "return 204;"
  /\ \E i \in 1..Len(RoutesNow) :
       /\ RoutesNow[i] = [service |-> "api-auth", path |-> "/login/", stripPrefix |-> FALSE]
       /\ \A k \in DOMAIN EmittedBlocks :
            JoinWith(EmittedBlocks[k], "\n")
              # buildDefaultNginxLocationBlock(RoutesNow[i], lastRuntime[1])

\* A block of the proxy configuration on disk serves a route: its header is
\* that of a location block at the route's path, and one of its lines
\* passes the requests on to the route's service.
Serves(block, route) ==
  /\ HeaderIn(block) = Some("location " \o route.path \o " {")
  /\ \E k \in DOMAIN block :
       StartsWith(Trim(block[k]), "proxy_pass http://" \o route.service \o ":")

\* C27: after a full run every resolved route is served by a block of the
\* proxy configuration.
C27_EveryRouteServed ==
  FullRunDone =>
    \A i \in 1..Len(RoutesNow) :
      \E k \in DOMAIN EmittedBlocks : Serves(EmittedBlocks[k], RoutesNow[i])

\* The manifest template the workspace holds apart from what the compiler
\* generated: that of the workspace root, or else the one under
\* ops/generated.
WorkspaceTemplate == IF rootCompose # <<>> THEN rootCompose ELSE legacyCompose

\* A full run completed with the application service s not enabled; the
\* template files are as that run found them and hold s; a full run is made
\* again, enables s and completes.
ReenabledRun(s) ==
  /\ runKind = "full"
  /\ s \notin EnabledNow
  /\ runTemplates = <<rootCompose, legacyCompose>>
  /\ WorkspaceTemplate # <<>>
  /\ s \in DOMAIN ServicesOf(WorkspaceTemplate[1])
  /\ generateProfileFull
  /\ runKind' = "full"
  /\ s \in Range(lastRuntime'[1].enabledServices)

\* C26: the manifest of a full run that enables a service again, which the
\* full run before it did not enable, holds that service whenever the
\* template of the workspace does.
C26_ReenabledServiceInManifest ==
  [][\A e \in Range(Declared) \ DeclaredDatabases :
       ReenabledRun(e[1]) => e[1] \in DOMAIN ServicesOf(composeFile'[1])]_vars

\* The services the blocks of the proxy configuration on disk pass requests
\* on to, among the given names.
ProxiedAmong(names) ==
  {n \in names :
     \E i \in DOMAIN EmittedBlocks : \E k \in DOMAIN EmittedBlocks[i] :
       StartsWith(Trim(EmittedBlocks[i][k]), "proxy_pass http://" \o n \o ":")}

\* C25: after a run that returned, env-only or full, there is one env file
\* per enabled service and no other; the manifest on disk has no declared
\* application service that the run did not enable and has every enabled
\* service the workspace's template has (the template files being those the
\* latest full run found); the proxy configuration on disk
\* passes nothing on to a declared application service that the run did
\* not enable.
C25_ArtifactsOfLatestRun ==
  runKind \in {"env", "full"} =>
    /\ EnvFilesNow = {s \o ".env" : s \in EnabledNow}
    /\ composeFile # <<>> =>
         /\ (DOMAIN ManifestServices) \cap IdleApplications = {}
         /\ (WorkspaceTemplate # <<>> /\ runTemplates = <<rootCompose, legacyCompose>>) =>
              (EnabledNow \cap DOMAIN ServicesOf(WorkspaceTemplate[1]))
                \subseteq DOMAIN ManifestServices
    /\ nginxFile # <<>> => ProxiedAmong(IdleApplications) = {}

\* The runtime buildRuntimeConfig returned to the latest run.
BuiltRuntime == buildRuntimeConfig(profileFile, procEnv, runDirs)

\* C22: when a run has ended, the source context, the generated context,
\* the shared environment, the database descriptors and the list of
\* enabled services of its runtime are as buildRuntimeConfig returned
\* them.
C22_WritersLeaveSnapshot ==
  HasRun =>
    /\ lastRuntime[1].sourceContext = BuiltRuntime.sourceContext
    /\ lastRuntime[1].generatedContext = BuiltRuntime.generatedContext
    /\ lastRuntime[1].commonEnv = BuiltRuntime.commonEnv
    /\ lastRuntime[1].dbConfigs = BuiltRuntime.dbConfigs
    /\ lastRuntime[1].enabledServices = BuiltRuntime.enabledServices

\* C22 witness: a full run wrote the env file of an enabled service with an
\* entry the shared environment does not have, stack.env, a manifest and a
\* proxy configuration.
C22_Witness ==
  /\ FullRunDone
  /\ runDirs = fsDirs
  /\ \E s \in EnabledNow :
       /\ "API_PORT" \in DOMAIN ServiceFile(s)
       /\ "API_PORT" \notin DOMAIN BuiltRuntime.commonEnv
  /\ stackFile # <<>>
  /\ composeFile # <<>>
  /\ nginxFile # <<>>

\* The profile file is absent or has no document in it, or neither the
\* workspace root nor ops/generated has a manifest template, or the proxy
\* template is absent or blank.
ConfigurationMissing ==
  \/ profileOnDisk \in {"absent", "empty"}
  \/ (rootCompose = <<>> /\ legacyCompose = <<>>)
  \/ Trim(nginxTemplate) = ""

\* C23: a full run made while the profile file, the manifest template or
\* the proxy template is absent or empty ends with an error.
C23_FullRunFailsWhenConfigurationMissing ==
  [][(ConfigurationMissing /\ generateProfileFull) => runKind' = "failed"]_vars

(***************************************************************************)
(* Claims about snippets (checked under SpecSnippet)                       *)
(***************************************************************************)

\* The lines of the snippet.
SnippetLines == SplitLines(nraw)

\* The braces the lines from..to open, minus those they close.
RECURSIVE BraceBalance(_, _)
BraceBalance(from, to) ==
  IF to < from THEN 0 ELSE BraceBalance(from, to - 1) + countBraces(SnippetLines[to])

\* The line that closes the braces of the location block that starts at
\* line i, wherever its first brace is: the first line at which a brace has
\* been opened and every opened brace is closed.  0 when there is none, or
\* when another location line comes before the first brace.
ClosingLine(i) ==
  FirstOf({e \in i..Len(SnippetLines) :
             /\ \E j \in i..e : HasSubstring(SnippetLines[j], "{")
             /\ BraceBalance(i, e) = 0
             /\ \A j \in i..e : BraceBalance(i, j) >= 0
             /\ \A j \in (i + 1)..e :
                  IsLocationLine(SnippetLines[j]) =>
                    \E k \in i..(j - 1) : HasSubstring(SnippetLines[k], "{")})

\* The location blocks of the snippet from line i on, in their order, each
\* as the lines from its location line to its closing line.  A location
\* line inside a block belongs to that block.
RECURSIVE LocationBlocksFrom(_)
LocationBlocksFrom(i) ==
  IF i > Len(SnippetLines) THEN <<>>
  ELSE IF ~IsLocationLine(SnippetLines[i]) \/ ClosingLine(i) = 0
    THEN LocationBlocksFrom(i + 1)
  ELSE <<Trim(JoinWith(SubSeq(SnippetLines, i, ClosingLine(i)), "\n"))>>
         \o LocationBlocksFrom(ClosingLine(i) + 1)

\* The location lines of the snippet that are in no location block and
\* start none (their braces never close).
RECURSIVE StrayLocationLines(_)
StrayLocationLines(i) ==
  IF i > Len(SnippetLines) THEN {}
  ELSE IF ~IsLocationLine(SnippetLines[i]) THEN StrayLocationLines(i + 1)
  ELSE IF ClosingLine(i) = 0 THEN {i} \cup StrayLocationLines(i + 1)
  ELSE StrayLocationLines(ClosingLine(i) + 1)

\* What the proxy_pass rewriting of the harness makes of a text.
Rewritten(text) ==
  ReplaceAuthorizerProxyPass(
    ReplaceLocalProxyPass(text, "proxy_pass http://web:8080;"),
    "proxy_pass http://authorizer:9000;")

\* C20: for a snippet with k >= 1 location blocks extractLocationBlocks
\* returns exactly those blocks in their order, each from its location line
\* through the line that closes its braces, and the text outside them is
\* dropped; a snippet with no location block is used as its trimmed text.
C20_ExtractsLocationBlocks ==
  /\ (nstage \in {"extracted", "normalized"} /\ StrayLocationLines(1) = {}
        /\ Len(LocationBlocksFrom(1)) >= 1) =>
       nblocks = LocationBlocksFrom(1)
  /\ (nstage = "normalized" /\ StrayLocationLines(1) = {}) =>
       nnormalized = Rewritten(IF Len(LocationBlocksFrom(1)) >= 1
                                 THEN JoinWith(LocationBlocksFrom(1), "\n\n")
                                 ELSE Trim(nraw))

(***************************************************************************)
(* Claims about apply mode (checked under SpecApply)                       *)
(***************************************************************************)

\* The .env.<label> file in the repository of an enabled service of the run
\* that ends: the repository is the directory whose existence enabled the
\* service.
RepositoryEnvPath(serviceName) ==
  ServiceRepoPath(serviceName, ServiceConfigOf(profileFile, serviceName))
    \o "/.env." \o lastRuntime'[1].stackEnv

\* C24: an apply run succeeds and leaves, for every service it enabled, a
\* file .env.<label> in the service's repository with the contents of the
\* service's generated env file.
C24_ApplyCopiesIntoRepository ==
  [][generateProfileApply =>
       /\ runKind' = "apply"
       /\ \A n \in Range(lastRuntime'[1].enabledServices) :
            /\ RepositoryEnvPath(n) \in DOMAIN repoEnvs'
            /\ repoEnvs'[RepositoryEnvPath(n)] = svcDir'[n \o ".env"]]_vars

====
